---- MODULE Spec2Model ----
(***************************************************************************)
(* A model of the reporting callbacks of the employer subscription         *)
(* dashboard.  The state is the content of the dcc.Store                   *)
(* 'global-data-store' (the table published at start-up by main/app.py)    *)
(* and the value returned by the last page callback.  Every callback is a  *)
(* function of the store content and of the values of its filter widgets;  *)
(* each one is an operator computed the way the pandas code computes it,   *)
(* and an action that stores its return value in out.  Around it are the   *)
(* clock of the server (now), the table graph_subscription of the local    *)
(* database with the refresh that rewrites it (etl), the number of reads   *)
(* load_data has made (attempts) and the lines printed (stdout).           *)
(*                                                                         *)
(* Time: a timestamp is a number of ticks since the first midnight of the  *)
(* model calendar; a day has TicksPerDay ticks and a month DaysPerMonth    *)
(* days.  A DataFrame is the sequence of the index labels of its rows      *)
(* (positions in the store), in row order; its columns are read from the   *)
(* store row of the label.                                                 *)
(***************************************************************************)
EXTENDS Integers, Sequences, FiniteSets, TLC

VARIABLES store, out, now, graph_subscription, etl, attempts, stdout

vars == <<store, out, now, graph_subscription, etl, attempts, stdout>>

\* The loader of the local database when no refresh is under way.
Idle == [pc |-> "idle", df |-> <<>>, before |-> <<>>]

\* What lies outside of the browser session: the clock of the server, the
\* table graph_subscription of the local database with the state of the
\* loader that fills it, the number of reads load_data has made of it and
\* the lines printed on the console.
env == <<now, graph_subscription, etl, attempts, stdout>>

\* A running dashboard whose surroundings stay as they are: the table was
\* read once at start-up and no loader is at work.
Quiet ==
  /\ now = 0
  /\ graph_subscription = [up |-> TRUE, rows |-> <<>>]
  /\ etl = Idle
  /\ attempts = 1
  /\ stdout = <<>>

(***************************************************************************)
(* Bounds of the model.                                                    *)
(***************************************************************************)
MaxRows == 2
MaxDay == 1
TicksPerDay == 2
DaysPerMonth == 2
\* The last tick the clock of the server reaches.
MaxClock == 4
\* The most users a table of the mode cards holds.
MaxUsers == 4
\* The most days a forecast is asked for.
MaxHorizon == 1

\* How far the length of a revenue table may lie from OutlierMinRows.
MaxSpread == 1

(***************************************************************************)
(* Raw values and their coercion.                                          *)
(***************************************************************************)
\* A JSON null of the store (None in the records of df.to_dict('records')).
NoneVal == -1
\* A value that pd.to_datetime / pd.to_numeric cannot parse.
BadVal == -2
\* pandas' missing timestamp, the result of errors='coerce'.
NaT == -3
\* pandas' missing number, the result of errors='coerce'.
NaN == -4
\* The raw subscription type of a row whose type is None.
NoneType == "<None>"
\* The raw location of a row whose location is None.
NoneLoc == "<None>"

\* pd.to_datetime(column, errors='coerce'): a parseable value keeps its
\* instant, None and unparseable values become NaT.
ToDatetime(v) == IF v >= 0 THEN v ELSE NaT

\* pd.to_numeric(column, errors='coerce'): None and unparseable become NaN.
ToNumeric(v) == IF v >= 0 THEN v ELSE NaN

\* pd.to_datetime('YYYY-MM-DD') of a date-picker value: midnight of the day.
DayStart(d) == d * TicksPerDay

\* Series.dt.date: the calendar day of a timestamp (NaT stays missing).
DateOf(t) == IF t = NaT THEN NaT ELSE t \div TicksPerDay

\* Series.dt.to_period('M'): the month of a calendar day.
MonthOfDay(d) == IF d = NaT THEN NaT ELSE d \div DaysPerMonth

\* astype(str).str.lower() on the subscription type; str(None) is 'None'.
Lower(s) ==
  CASE s = "New" -> "new"
    [] s = "NEW" -> "new"
    [] s = "new" -> "new"
    [] s = " new" -> " new"
    [] s = "Renewed" -> "renewed"
    [] s = "renewed" -> "renewed"
    [] s = "Upgraded" -> "upgraded"
    [] s = "Trial" -> "trial"
    [] s = "trial" -> "trial"
    [] s = "Cancelled" -> "cancelled"
    [] s = "cancelled" -> "cancelled"
    [] s = "Canceled" -> "canceled"
    [] s = " CANCELLATION " -> " cancellation "
    [] s = NoneType -> "none"
    [] s = "Premium" -> "premium"
    [] s = "Standard" -> "standard"
    [] s = "Unknown" -> "unknown"
    [] OTHER -> s

(***************************************************************************)
(* Sequence helpers (pandas primitives).                                   *)
(***************************************************************************)
\* The index labels of a fresh DataFrame built from the store.
Labels(data) == [i \in 1..Len(data) |-> i]

\* The set of the elements of a sequence.
Range(s) == {s[i] : i \in 1..Len(s)}

\* Series.sum() of a sequence of numbers.
RECURSIVE SumSeq(_)
SumSeq(s) == IF s = <<>> THEN 0 ELSE Head(s) + SumSeq(Tail(s))

\* The elements of a finite set of integers in ascending order
\* (groupby sorts its keys).
RECURSIVE Sorted(_)
Sorted(S) ==
  IF S = {} THEN <<>>
  ELSE LET m == CHOOSE x \in S : \A y \in S : x <= y
       IN <<m>> \o Sorted(S \ {m})

Min(S) == CHOOSE x \in S : \A y \in S : x <= y
Max(S) == CHOOSE x \in S : \A y \in S : x >= y

\* Series.idxmax(): the position of the first occurrence of the maximum.
IdxMax_Last(vals) ==
  CHOOSE k \in 1..Len(vals) :
    /\ \A j \in 1..Len(vals) : vals[j] <= vals[k]
    /\ \A j \in (k + 1)..Len(vals) : vals[j] < vals[k]

IdxMax(vals) ==
  CHOOSE i \in 1..Len(vals) :
    /\ \A j \in 1..Len(vals) : vals[j] <= vals[i]
    /\ \A j \in 1..(i - 1) : vals[j] < vals[i]

\* Series.idxmin(): the position of the first occurrence of the minimum.
IdxMin(vals) ==
  CHOOSE i \in 1..Len(vals) :
    /\ \A j \in 1..Len(vals) : vals[j] >= vals[i]
    /\ \A j \in 1..(i - 1) : vals[j] > vals[i]

\* A ratio n / d kept exact, as the pair of its terms.
Ratio(n, d) == [num |-> n, den |-> d]

(***************************************************************************)
(* Paid classification.                                                    *)
(***************************************************************************)
\* paid_types / base_paid_types / valid_types of the pages.
PaidTypes == {"new", "renewed", "upgraded"}

(***************************************************************************)
(* Columns of the table.                                                   *)
(***************************************************************************)
\* 'c' in df.columns: a column exists when some record of the store has
\* the key.
HasCol(data, c) == \E i \in 1..Len(data) : c \in DOMAIN data[i]

\* missing_cols = [col for col in required_cols if col not in df.columns]
MissingCols(data, required_cols) == {c \in required_cols : ~HasCol(data, c)}

\* df['Date'] after pd.to_datetime(df['Date'], errors='coerce'); a page that
\* goes on without the column has no date for any row.
DateAt(data, i) == IF HasCol(data, "Date") THEN ToDatetime(data[i].Date) ELSE NaT

\* df['Subscription_Type']; the overview pages set it to "Unknown" when the
\* column is absent.
TypeAt(data, i) ==
  IF HasCol(data, "Subscription_Type") THEN data[i].Subscription_Type ELSE "Unknown"

\* df['lastPaymentReceivedOn'] after pd.to_datetime(..., errors='coerce');
\* the comparison pages set the column to NaT when it is absent.
PayAt(data, i) ==
  IF HasCol(data, "lastPaymentReceivedOn")
  THEN ToDatetime(data[i].lastPaymentReceivedOn) ELSE NaT

\* pd.to_numeric(df['lastAmountPaidEUR'], errors='coerce').fillna(0); the
\* column is 0 when it is absent.
AmountFilled(data, i) ==
  IF HasCol(data, "lastAmountPaidEUR")
  THEN (IF ToNumeric(data[i].lastAmountPaidEUR) = NaN THEN 0
        ELSE ToNumeric(data[i].lastAmountPaidEUR))
  ELSE 0

\* df['type_norm']: the lower-cased type, "unknown" when the column is absent.
TypeNorm(data, i) ==
  IF HasCol(data, "Subscription_Type")
  THEN Lower(data[i].Subscription_Type) ELSE "unknown"

\* The payment comparison written with > in place of >=.
PaymentMask_Strict(data, i) ==
  LET pay == PayAt(data, i)
      date == DateAt(data, i)
  IN pay # NaT /\ date # NaT /\ pay > date

\* has_valid_payment / payment_mask on the converted columns.
PaymentMask(data, i) ==
  LET pay == PayAt(data, i)
      date == DateAt(data, i)
  IN pay # NaT /\ date # NaT /\ pay >= date

\* df['is_paid'] of the comparison pages.
IsPaid(data, i) == TypeNorm(data, i) \in PaidTypes /\ PaymentMask(data, i)

\* df[df['Date'] >= pd.to_datetime(start_date)] when start_date is set.
FilterStart(data, df, start_date) ==
  IF start_date = NoneVal THEN df
  ELSE SelectSeq(df, LAMBDA i : DateAt(data, i) # NaT
                             /\ DateAt(data, i) >= DayStart(start_date))

\* df[df['Date'] <= pd.to_datetime(end_date)] when end_date is set.
FilterEnd(data, df, end_date) ==
  IF end_date = NoneVal THEN df
  ELSE SelectSeq(df, LAMBDA i : DateAt(data, i) # NaT
                             /\ DateAt(data, i) <= DayStart(end_date))

\* df[df['Location'].isin(selected_countries)] when a selection is made and
\* the column exists.
FilterCountry(data, df, selected_countries) ==
  IF selected_countries = {} \/ ~HasCol(data, "Location") THEN df
  ELSE SelectSeq(df, LAMBDA i : data[i].Location \in selected_countries)

\* df[df['Subscription_Type'].isin(selected_types)] when a selection is made.
FilterType(data, df, selected_types) ==
  IF selected_types = {} THEN df
  ELSE SelectSeq(df, LAMBDA i : TypeAt(data, i) \in selected_types)

\* The keys of df.groupby('date_only'): the distinct days of the rows of
\* df, in ascending order; rows without a date belong to no group.
DayKeys(data, df) ==
  Sorted({DateOf(DateAt(data, df[k])) : k \in 1..Len(df)} \ {NaT})

\* The keys of df.groupby('month_start'): the distinct months of the rows.
MonthKeys(data, df) ==
  Sorted({MonthOfDay(DateOf(DateAt(data, df[k]))) : k \in 1..Len(df)} \ {NaT})

\* df['lastAmountPaidEUR'].sum() over the rows of df.
AmountSum(data, df) == SumSeq([k \in 1..Len(df) |-> AmountFilled(data, df[k])])

(***************************************************************************)
(* daily_revenue_comparison.update_cmp_overview                            *)
(***************************************************************************)
update_cmp_overview(data, start_date, end_date, selected_countries, selected_types) ==
  IF data = <<>>
  THEN [total_all |-> 0, total_paid |-> 0, paid_percent |-> Ratio(0, 1),
        total_revenue |-> 0, fig |-> "No Data Available", df |-> <<>>,
        is_paid |-> <<>>, daily |-> <<>>, raised |-> FALSE]
  ELSE IF ~HasCol(data, "Date")
          \/ (selected_types # {} /\ ~HasCol(data, "Subscription_Type"))
  THEN [raised |-> TRUE]
  ELSE
    LET df0 == Labels(data)
        df1 == FilterStart(data, df0, start_date)
        df2 == FilterEnd(data, df1, end_date)
        df3 == FilterCountry(data, df2, selected_countries)
        df == FilterType(data, df3, selected_types)
        total_all == Len(df)
        total_paid == Len(SelectSeq(df, LAMBDA i : IsPaid(data, i)))
        paid == SelectSeq(df, LAMBDA i : IsPaid(data, i))
        days == DayKeys(data, df)
    IN [total_all |-> total_all,
        total_paid |-> total_paid,
        paid_percent |-> IF total_all > 0 THEN Ratio(total_paid * 100, total_all)
                         ELSE Ratio(0, 1),
        total_revenue |-> AmountSum(data, paid),
        fig |-> IF df = <<>> THEN "No Data Found for Selected Filters"
                ELSE "Daily Subscriptions: Total vs Paid",
        df |-> df,
        is_paid |-> [i \in 1..Len(data) |-> IsPaid(data, i)],
        daily |-> [k \in 1..Len(days) |->
                     [date_only |-> days[k],
                      Total_Count |-> Len(SelectSeq(df, LAMBDA i : DateOf(DateAt(data, i)) = days[k])),
                      Paid_Count |-> Len(SelectSeq(df, LAMBDA i : DateOf(DateAt(data, i)) = days[k]
                                                         /\ IsPaid(data, i)))]],
        raised |-> FALSE]

(***************************************************************************)
(* monthly_revenue_comparison.update_cmp_month_overview                    *)
(***************************************************************************)
\* df[df['month_str'].isin(selected_months)] when months are selected.
FilterMonths(data, df, selected_months) ==
  IF selected_months = {} THEN df
  ELSE SelectSeq(df, LAMBDA i : DateAt(data, i) # NaT
                             /\ MonthOfDay(DateOf(DateAt(data, i))) \in selected_months)

update_cmp_month_overview(data, selected_months, selected_countries, selected_types) ==
  IF data = <<>>
  THEN [total_all |-> 0, total_paid |-> 0, paid_percent |-> Ratio(0, 1),
        total_revenue |-> 0, fig |-> "No Data Available", is_paid |-> <<>>,
        monthly |-> <<>>, raised |-> FALSE]
  ELSE IF ~HasCol(data, "Date")
          \/ (selected_types # {} /\ ~HasCol(data, "Subscription_Type"))
  THEN [raised |-> TRUE]
  ELSE
    LET df0 == Labels(data)
        df1 == FilterMonths(data, df0, selected_months)
        df2 == FilterCountry(data, df1, selected_countries)
        df == FilterType(data, df2, selected_types)
        total_all == Len(df)
        total_paid == Len(SelectSeq(df, LAMBDA i : IsPaid(data, i)))
        paid == SelectSeq(df, LAMBDA i : IsPaid(data, i))
        months == MonthKeys(data, df)
    IN [total_all |-> total_all,
        total_paid |-> total_paid,
        paid_percent |-> IF total_all > 0 THEN Ratio(total_paid * 100, total_all)
                         ELSE Ratio(0, 1),
        total_revenue |-> AmountSum(data, paid),
        fig |-> IF df = <<>> THEN "No Data Found for Selected Filters"
                ELSE "Monthly Subscriptions: Total vs Paid",
        is_paid |-> [i \in 1..Len(data) |-> IsPaid(data, i)],
        monthly |-> [k \in 1..Len(months) |->
                     [month_start |-> months[k],
                      Total_Count |-> Len(SelectSeq(df, LAMBDA i :
                                        MonthOfDay(DateOf(DateAt(data, i))) = months[k])),
                      Paid_Count |-> Len(SelectSeq(df, LAMBDA i :
                                        MonthOfDay(DateOf(DateAt(data, i))) = months[k]
                                        /\ IsPaid(data, i)))]],
        raised |-> FALSE]

(***************************************************************************)
(* daily_revenue_bar_chart.update_paid_overview                            *)
(***************************************************************************)
\* target_types: the lower-cased selection restricted to the paid types, or
\* all paid types when nothing is selected.
TargetTypes(selected_types) ==
  IF selected_types # {}
  THEN {Lower(t) : t \in selected_types} \cap PaidTypes
  ELSE PaidTypes

\* type_mask & payment_mask of update_paid_overview.
PaidMask(data, i, selected_types) ==
  TypeNorm(data, i) \in TargetTypes(selected_types) /\ PaymentMask(data, i)

update_paid_overview(data, start_date, end_date, selected_countries, selected_types) ==
  IF data = <<>>
  THEN [total_paid_count |-> 0, total_revenue |-> 0, count_new |-> 0,
        count_renewed |-> 0, count_upgraded |-> 0, fig |-> "No Data Available",
        df_paid |-> <<>>, is_paid |-> <<>>, daily |-> <<>>, raised |-> FALSE]
  ELSE IF ~HasCol(data, "lastPaymentReceivedOn")
  THEN [total_paid_count |-> 0, total_revenue |-> 0, count_new |-> 0,
        count_renewed |-> 0, count_upgraded |-> 0,
        fig |-> "Missing Payment Data Column",
        df_paid |-> <<>>, is_paid |-> <<>>, daily |-> <<>>, raised |-> FALSE]
  ELSE IF ~HasCol(data, "Date")
  THEN [raised |-> TRUE]
  ELSE
    LET df0 == SelectSeq(Labels(data), LAMBDA i : PaidMask(data, i, selected_types))
        df1 == FilterStart(data, df0, start_date)
        df2 == FilterEnd(data, df1, end_date)
        df_paid == FilterCountry(data, df2, selected_countries)
        days == DayKeys(data, df_paid)
    IN [total_paid_count |-> Len(df_paid),
        df_paid |-> df_paid,
        total_revenue |-> AmountSum(data, df_paid),
        count_new |-> Len(SelectSeq(df_paid, LAMBDA i : TypeNorm(data, i) = "new")),
        count_renewed |-> Len(SelectSeq(df_paid, LAMBDA i : TypeNorm(data, i) = "renewed")),
        count_upgraded |-> Len(SelectSeq(df_paid, LAMBDA i : TypeNorm(data, i) = "upgraded")),
        fig |-> IF df_paid = <<>> THEN "No Paid Subscriptions Found for Selected Filters"
                ELSE "Daily Paid Subscriptions",
        is_paid |-> [i \in 1..Len(data) |-> PaidMask(data, i, selected_types)],
        daily |-> [k \in 1..Len(days) |->
                     [date_only |-> days[k],
                      count |-> Len(SelectSeq(df_paid, LAMBDA i :
                                        DateOf(DateAt(data, i)) = days[k]))]],
        raised |-> FALSE]

(***************************************************************************)
(* Helpers of the insight pages.                                           *)
(***************************************************************************)
\* The alphabetical order of the location names (groupby('Location') sorts).
LocationOrder == <<"DE", "FR">>

\* df.dropna(subset=[...]) on the converted Date, the type and the location.
HasDate(data, i) == DateAt(data, i) # NaT
HasType(data, i) == data[i].Subscription_Type # NoneType
HasLocation(data, i) == data[i].Location # NoneLoc

\* (global_max_date - global_min_date).days + 1, at least 1: Timedelta.days
\* is the number of whole 24-hour periods between the two instants.
TotalDaysPeriod(stamps) ==
  LET span == (Max(stamps) - Min(stamps)) \div TicksPerDay + 1
  IN IF span < 1 THEN 1 ELSE span

\* df.groupby(df['Date'].dt.date).size(): one row per day that has a row
\* of df, in ascending date order.
DailyCounts(data, df) ==
  LET days == DayKeys(data, df)
  IN [k \in 1..Len(days) |->
        [Date |-> days[k],
         Daily_Count |-> Len(SelectSeq(df, LAMBDA i : DateOf(DateAt(data, i)) = days[k]))]]

\* The same grouping restricted to one location.
DailyLocCounts(data, df, loc) ==
  DailyCounts(data, SelectSeq(df, LAMBDA i : data[i].Location = loc))

\* The Daily_Count column of a daily table.
CountCol(daily) == [k \in 1..Len(daily) |-> daily[k].Daily_Count]

\* The months of a daily table, ascending (groupby('Month')).
MonthsOf(daily) == Sorted({MonthOfDay(daily[k].Date) : k \in 1..Len(daily)})

\* The rows of a daily table that fall in month m, in table order.
MonthGroup(daily, m) == SelectSeq(daily, LAMBDA row : MonthOfDay(row.Date) = m)

\* The locations that have a row in df, in groupby order.
LocationsOf(data, df) ==
  SelectSeq(LocationOrder, LAMBDA loc : \E k \in 1..Len(df) : data[df[k]].Location = loc)

(***************************************************************************)
(* paid_subs_insights.update_paid_subs_insights                            *)
(***************************************************************************)
\* get_monthly_stats of the paid and the cancellation time pages.
get_monthly_stats(group) ==
  LET total == SumSeq(CountCol(group))
      max_idx == IdxMax(CountCol(group))
      min_idx == IdxMin(CountCol(group))
  IN [Month |-> MonthOfDay(group[1].Date),
      Total_Month |-> total,
      Avg_Daily |-> Ratio(total, DaysPerMonth),
      Max_Date |-> group[max_idx].Date, Max_Count |-> group[max_idx].Daily_Count,
      Min_Date |-> group[min_idx].Date, Min_Count |-> group[min_idx].Daily_Count]

\* daily_counts.groupby('Month').apply(get_monthly_stats).
MonthlyStats(daily) ==
  LET months == MonthsOf(daily)
  IN [k \in 1..Len(months) |-> get_monthly_stats(MonthGroup(daily, months[k]))]

update_paid_subs_insights(data) ==
  IF data = <<>> THEN [alert |-> "No data available.", raised |-> FALSE]
  ELSE IF ~HasCol(data, "Date") \/ ~HasCol(data, "Subscription_Type")
  THEN [alert |-> "Data missing required columns", raised |-> FALSE]
  ELSE
    LET df == SelectSeq(Labels(data), LAMBDA i : HasDate(data, i) /\ HasType(data, i))
        total_records == Len(df)
        df_paid == SelectSeq(df, LAMBDA i : TypeNorm(data, i) \in PaidTypes)
        daily_counts == DailyCounts(data, df_paid)
    IN IF df_paid = <<>>
       THEN [alert |-> "No paid subscriptions found in the dataset.", raised |-> FALSE]
       ELSE [alert |-> "",
             df_paid |-> df_paid,
             total_paid_subs |-> Len(df_paid),
             paid_rate |-> IF total_records > 0
                           THEN Ratio(Len(df_paid) * 100, total_records)
                           ELSE Ratio(0, 1),
             max_day_row |-> daily_counts[IdxMax(CountCol(daily_counts))],
             min_day_row |-> daily_counts[IdxMin(CountCol(daily_counts))],
             daily_counts |-> daily_counts,
             monthly_report |-> MonthlyStats(daily_counts),
             raised |-> FALSE]

(***************************************************************************)
(* location_paid_insights.update_location_paid_insights                    *)
(***************************************************************************)
\* get_location_stats of the location paid page, for the location loc.
get_location_paid_stats(data, df, df_paid, loc, total_days_period) ==
  LET group == DailyLocCounts(data, df_paid, loc)
      total_loc_paid == SumSeq(CountCol(group))
      total_loc_traffic == Len(SelectSeq(df, LAMBDA i : data[i].Location = loc))
      max_idx == IdxMax(CountCol(group))
      min_idx == IdxMin(CountCol(group))
  IN [Location |-> loc,
      Total_Paid |-> total_loc_paid,
      Total_Traffic |-> total_loc_traffic,
      Paid_Rate |-> IF total_loc_traffic > 0
                    THEN Ratio(total_loc_paid * 100, total_loc_traffic)
                    ELSE Ratio(0, 1),
      Avg_Daily_Paid |-> Ratio(total_loc_paid, total_days_period),
      Best_Day_Date |-> group[max_idx].Date,
      Best_Day_Count |-> group[max_idx].Daily_Count,
      Worst_Day_Date |-> group[min_idx].Date,
      Worst_Day_Count |-> group[min_idx].Daily_Count]

update_location_paid_insights(data) ==
  IF data = <<>> THEN [alert |-> "No data available.", raised |-> FALSE]
  ELSE IF ~HasCol(data, "Date") \/ ~HasCol(data, "Location")
          \/ ~HasCol(data, "Subscription_Type")
  THEN [alert |-> "Data missing required columns", raised |-> FALSE]
  ELSE
    LET df == SelectSeq(Labels(data), LAMBDA i : HasDate(data, i) /\ HasLocation(data, i)
                                              /\ HasType(data, i))
        df_paid == SelectSeq(df, LAMBDA i : TypeNorm(data, i) \in PaidTypes)
        locs == LocationsOf(data, df_paid)
    IN IF df_paid = <<>>
       THEN [alert |-> "No paid subscriptions (New/Renewed/Upgraded) found.",
             raised |-> FALSE]
       ELSE
         LET total_days_period == TotalDaysPeriod({DateAt(data, df[k]) : k \in 1..Len(df)})
         IN [alert |-> "",
             df_paid |-> df_paid,
             total_paid |-> Len(df_paid),
             unique_locations_active |-> Len(locs),
             location_report |->
               [k \in 1..Len(locs) |->
                  get_location_paid_stats(data, df, df_paid, locs[k], total_days_period)],
             raised |-> FALSE]

(***************************************************************************)
(* volume_location.update_volume_location                                  *)
(***************************************************************************)
\* get_location_details of the location volume page, on the daily counts
\* of one location.
get_location_volume_details(loc, group, total_days_period) ==
  LET total_loc_subs == SumSeq(CountCol(group))
      active_days_count == Len(group)
      max_day_idx == IdxMax(CountCol(group))
      min_day_idx == IdxMin(CountCol(group))
  IN [Location |-> loc,
      Total_Location_Subs |-> total_loc_subs,
      Active_Days |-> active_days_count,
      Avg_All_Days |-> Ratio(total_loc_subs, total_days_period),
      Avg_Active_Days |-> IF active_days_count > 0
                          THEN Ratio(total_loc_subs, active_days_count)
                          ELSE Ratio(0, 1),
      Best_Day_Date |-> group[max_day_idx].Date,
      Best_Day_Count |-> group[max_day_idx].Daily_Count,
      Worst_Day_Date |-> group[min_day_idx].Date,
      Worst_Day_Count |-> group[min_day_idx].Daily_Count]

update_volume_location(data) ==
  IF data = <<>> THEN [alert |-> "No data available.", raised |-> FALSE]
  ELSE IF ~HasCol(data, "Date") \/ ~HasCol(data, "Location")
          \/ ~HasCol(data, "Subscription_Type")
  THEN [alert |-> "Data missing required columns", raised |-> FALSE]
  ELSE
    LET df_clean == SelectSeq(Labels(data), LAMBDA i : HasDate(data, i)
                             /\ HasLocation(data, i) /\ HasType(data, i))
        locs == LocationsOf(data, df_clean)
    IN IF df_clean = <<>>
       THEN [alert |-> "No data found after cleaning.", raised |-> FALSE]
       ELSE
         LET total_days_period ==
               TotalDaysPeriod({DateAt(data, df_clean[k]) : k \in 1..Len(df_clean)})
         IN [alert |-> "",
             total_subs |-> Len(df_clean),
             total_days_period |-> total_days_period,
             count_cancelled |-> Len(SelectSeq(df_clean, LAMBDA i : TypeNorm(data, i) = "cancelled")),
             count_trial |-> Len(SelectSeq(df_clean, LAMBDA i : TypeNorm(data, i) = "trial")),
             df_paid |-> SelectSeq(df_clean, LAMBDA i : TypeNorm(data, i) \in PaidTypes),
             count_paid |-> Len(SelectSeq(df_clean, LAMBDA i : TypeNorm(data, i) \in PaidTypes)),
             location_report |->
               [k \in 1..Len(locs) |->
                  get_location_volume_details(
                    locs[k], DailyLocCounts(data, df_clean, locs[k]), total_days_period)],
             raised |-> FALSE]

(***************************************************************************)
(* daily_overview.update_daily_overview                                    *)
(***************************************************************************)
\* The order in which a type dropdown lists its options (sorted), which is
\* the order of a selection made from it.
TypeOrder ==
  <<" new", "Canceled", "Cancelled", "NEW", "New", "Renewed", "Trial", "Upgraded",
    "cancelled", "new", "renewed", "trial">>

\* df['Subscription_Type'].unique(): the raw types of df in order of first
\* appearance, a missing type included.
RECURSIVE UniqueTypes(_, _)
UniqueTypes(data, df) ==
  IF df = <<>> THEN <<>>
  ELSE LET t == TypeAt(data, Head(df))
       IN <<t>> \o UniqueTypes(data, SelectSeq(Tail(df), LAMBDA i : TypeAt(data, i) # t))

\* unique_types = selected_types if selected_types else the types of df.
ChartTypes(data, df, selected_types) ==
  IF selected_types # {} THEN SelectSeq(TypeOrder, LAMBDA t : t \in selected_types)
  ELSE UniqueTypes(data, df)

\* df.groupby([bucket, 'Subscription_Type']).size() read at one key: the
\* number of rows of df in the bucket with the type; groupby leaves out the
\* rows whose bucket or type is missing.
DayTypeCount(data, df, d, t) ==
  IF t = NoneType THEN 0
  ELSE Len(SelectSeq(df, LAMBDA i : DateOf(DateAt(data, i)) = d /\ TypeAt(data, i) = t))

\* A chart table left without its reindex: the first and the last bucket
\* only, the buckets between them skipped.
ProductRows_Ends(lo, hi, types) ==
  IF lo > hi THEN <<>>
  ELSE [k \in 1..Len(types) |-> [bucket |-> lo, Subscription_Type |-> types[k]]]
       \o (IF hi > lo
           THEN [k \in 1..Len(types) |-> [bucket |-> hi, Subscription_Type |-> types[k]]]
           ELSE <<>>)

\* from_product([buckets, types]) then reindex(fill_value=0): one chart row
\* per bucket of lo..hi and per type, bucket-major.
RECURSIVE ProductRows(_, _, _)
ProductRows(lo, hi, types) ==
  IF lo > hi THEN <<>>
  ELSE [k \in 1..Len(types) |-> [bucket |-> lo, Subscription_Type |-> types[k]]]
       \o ProductRows(lo + 1, hi, types)

\* The daily chart table after the gap fill.
DailyChart(data, df, min_d, max_d, types) ==
  LET keys == ProductRows(min_d, max_d, types)
  IN [k \in 1..Len(keys) |->
        [date_only |-> keys[k].bucket,
         Subscription_Type |-> keys[k].Subscription_Type,
         count |-> DayTypeCount(data, df, keys[k].bucket, keys[k].Subscription_Type)]]

\* df['date_only'].min() / .max() raise a TypeError on an object column
\* that holds a missing date: the reduction compares a date with a float.
DateOnlyReductionRaises(data, df) ==
  \E k \in 1..Len(df) : DateAt(data, df[k]) = NaT

\* The cards of the overview pages: counts.get(type, 0) on type_norm.
TypeCards(data, df) ==
  [count_new |-> Len(SelectSeq(df, LAMBDA i : TypeNorm(data, i) = "new")),
   count_trial |-> Len(SelectSeq(df, LAMBDA i : TypeNorm(data, i) = "trial")),
   count_renewed |-> Len(SelectSeq(df, LAMBDA i : TypeNorm(data, i) = "renewed")),
   count_upgraded |-> Len(SelectSeq(df, LAMBDA i : TypeNorm(data, i) = "upgraded")),
   count_cancelled |-> Len(SelectSeq(df, LAMBDA i : TypeNorm(data, i) = "cancelled"))]

\* The filter stage of the overview and package pages, in the order the
\* code applies it: start date, end date, countries, types.
FilterStage(data, start_date, end_date, selected_countries, selected_types) ==
  FilterType(data,
    FilterCountry(data,
      FilterEnd(data, FilterStart(data, Labels(data), start_date), end_date),
      selected_countries),
    selected_types)

update_daily_overview(data, start_date, end_date, selected_countries, selected_types) ==
  IF data = <<>>
  THEN [total_count |-> 0,
        cards |-> [count_new |-> 0, count_trial |-> 0, count_renewed |-> 0,
                   count_upgraded |-> 0, count_cancelled |-> 0],
        fig |-> "No Data Available", df |-> <<>>, chart |-> <<>>, raised |-> FALSE]
  ELSE IF (~HasCol(data, "Date") /\ (start_date # NoneVal \/ end_date # NoneVal))
  THEN [raised |-> TRUE]
  ELSE
    LET df == FilterStage(data, start_date, end_date, selected_countries, selected_types)
    IN IF df = <<>>
       THEN [total_count |-> 0, cards |-> TypeCards(data, df),
             fig |-> "No Data Found for Selected Filters", df |-> df,
             chart |-> <<>>, raised |-> FALSE]
       ELSE IF (start_date = NoneVal \/ end_date = NoneVal)
               /\ DateOnlyReductionRaises(data, df)
       THEN [raised |-> TRUE]
       ELSE
         LET days == {DateOf(DateAt(data, df[k])) : k \in 1..Len(df)}
             min_d == IF start_date # NoneVal THEN start_date ELSE Min(days)
             max_d == IF end_date # NoneVal THEN end_date ELSE Max(days)
         IN [total_count |-> Len(df), cards |-> TypeCards(data, df),
             fig |-> "Daily Subscriptions by Type", df |-> df,
             chart |-> DailyChart(data, df, min_d, max_d,
                                  ChartTypes(data, df, selected_types)),
             raised |-> FALSE]

(***************************************************************************)
(* package_analysis.update_package_overview                                *)
(***************************************************************************)
\* df['pkg_norm']: fillna('Unknown'), lower-cased.
PkgNorm(data, i) ==
  IF HasCol(data, "Package_Name")
  THEN (IF data[i].Package_Name = NoneType THEN "unknown"
        ELSE Lower(data[i].Package_Name))
  ELSE "unknown"

update_package_overview(data, start_date, end_date, selected_countries, selected_types) ==
  IF data = <<>>
  THEN [total_count |-> 0, count_premium |-> 0, count_professional |-> 0,
        count_standard |-> 0, fig |-> "No Data Available", df |-> <<>>,
        raised |-> FALSE]
  ELSE IF (~HasCol(data, "Date") /\ (start_date # NoneVal \/ end_date # NoneVal))
  THEN [raised |-> TRUE]
  ELSE
    LET df == FilterStage(data, start_date, end_date, selected_countries,
                          IF HasCol(data, "Subscription_Type") THEN selected_types ELSE {})
    IN [total_count |-> Len(df),
        count_premium |-> Len(SelectSeq(df, LAMBDA i : PkgNorm(data, i) = "premium")),
        count_professional |->
          Len(SelectSeq(df, LAMBDA i : PkgNorm(data, i) = "professional")),
        count_standard |-> Len(SelectSeq(df, LAMBDA i : PkgNorm(data, i) = "standard")),
        fig |-> IF df = <<>> THEN "No Data Found for Selected Filters"
                ELSE "Subscribers by Package",
        df |-> df, raised |-> FALSE]

(***************************************************************************)
(* monthly_overview.update_monthly_overview                                *)
(***************************************************************************)
\* groupby(['Month_Start', 'Subscription_Type']).size() read at one key.
MonthTypeCount(data, df, m, t) ==
  IF t = NoneType THEN 0
  ELSE Len(SelectSeq(df, LAMBDA i : MonthOfDay(DateOf(DateAt(data, i))) = m
                                    /\ TypeAt(data, i) = t))

\* The rows of df that df_grouped counts: a month and a type are present.
GroupedRows(data, df) ==
  SelectSeq(df, LAMBDA i : DateAt(data, i) # NaT /\ TypeAt(data, i) # NoneType)

\* The monthly chart table after the gap fill.
MonthlyChart(data, df, min_m, max_m, types) ==
  LET keys == ProductRows(min_m, max_m, types)
  IN [k \in 1..Len(keys) |->
        [Month_Start |-> keys[k].bucket,
         Subscription_Type |-> keys[k].Subscription_Type,
         count |-> MonthTypeCount(data, df, keys[k].bucket, keys[k].Subscription_Type)]]

update_monthly_overview(data, selected_months, selected_countries, selected_types) ==
  IF data = <<>>
  THEN [total_count |-> 0,
        cards |-> [count_new |-> 0, count_trial |-> 0, count_renewed |-> 0,
                   count_upgraded |-> 0, count_cancelled |-> 0],
        fig |-> "No Data Available", df |-> <<>>, chart |-> <<>>,
        gap_filled |-> FALSE, raised |-> FALSE]
  ELSE
    LET df == FilterType(data,
                FilterCountry(data, FilterMonths(data, Labels(data), selected_months),
                              selected_countries),
                selected_types)
        grouped == GroupedRows(data, df)
    IN IF df = <<>> \/ grouped = <<>>
       THEN [total_count |-> Len(df), cards |-> TypeCards(data, df),
             fig |-> IF df = <<>> THEN "No Data Found for Selected Filters"
                     ELSE "Monthly Subscriptions by Type",
             df |-> df, chart |-> <<>>, gap_filled |-> FALSE, raised |-> FALSE]
       ELSE
         LET months == {MonthOfDay(DateOf(DateAt(data, grouped[k]))) :
                          k \in 1..Len(grouped)}
         IN [total_count |-> Len(df), cards |-> TypeCards(data, df),
             fig |-> "Monthly Subscriptions by Type", df |-> df,
             chart |-> MonthlyChart(data, df, Min(months), Max(months),
                                    ChartTypes(data, df, selected_types)),
             gap_filled |-> TRUE, raised |-> FALSE]

(***************************************************************************)
(* revenue_insights.update_insights                                        *)
(***************************************************************************)
\* pd.to_numeric(df['lastAmountPaidEUR'], errors='coerce'), not filled.
AmountAt(data, i) == ToNumeric(data[i].lastAmountPaidEUR)

\* The cleaning of the revenue insight pages: dropna on the payment date,
\* the event date, the amount and the type, then the paid types, then
\* lastPaymentReceivedOn >= Date.
RevenueClean(data, df) ==
  SelectSeq(df, LAMBDA i : /\ PayAt(data, i) # NaT
                           /\ DateAt(data, i) # NaT
                           /\ AmountAt(data, i) # NaN
                           /\ data[i].Subscription_Type # NoneType
                           /\ TypeNorm(data, i) \in PaidTypes
                           /\ PayAt(data, i) >= DateAt(data, i))

\* The payment days of df, ascending (groupby on lastPaymentReceivedOn.dt.date).
PayDayKeys(data, df) == Sorted({DateOf(PayAt(data, df[k])) : k \in 1..Len(df)})

\* The summed amount of the rows of df paid on day d.
DaySum(data, df, d) ==
  LET rows == SelectSeq(df, LAMBDA i : DateOf(PayAt(data, i)) = d)
  IN SumSeq([j \in 1..Len(rows) |-> AmountAt(data, rows[j])])

\* groupby(payment day)['lastAmountPaidEUR'].sum(): one row per payment day
\* that has a row of df, in ascending date order.
DailySums(data, df) ==
  LET days == PayDayKeys(data, df)
  IN [k \in 1..Len(days) |-> [Date |-> days[k], Daily_Revenue |-> DaySum(data, df, days[k])]]

\* The Daily_Revenue column of a daily table.
RevCol(daily) == [k \in 1..Len(daily) |-> daily[k].Daily_Revenue]

\* if df_clean.empty: return the alert.
EmptyGuard_Absent(df_clean) == FALSE

EmptyGuard(df_clean) == df_clean = <<>>

\* get_monthly_details of update_insights, on the daily sums of one month.
get_monthly_revenue_details(group) ==
  LET total_month_rev == SumSeq(RevCol(group))
      active_days_count == Len(group)
      max_day_idx == IdxMax(RevCol(group))
      min_day_idx == IdxMin(RevCol(group))
  IN [Month |-> MonthOfDay(group[1].Date),
      Total_Month_Revenue |-> total_month_rev,
      Active_Days |-> active_days_count,
      Avg_All_Days |-> Ratio(total_month_rev, DaysPerMonth),
      Avg_Active_Days |-> IF active_days_count > 0
                          THEN Ratio(total_month_rev, active_days_count)
                          ELSE Ratio(0, 1),
      Max_Rev_Date |-> group[max_day_idx].Date,
      Max_Rev_Amt |-> group[max_day_idx].Daily_Revenue,
      Min_Rev_Date |-> group[min_day_idx].Date,
      Min_Rev_Amt |-> group[min_day_idx].Daily_Revenue]

update_insights(data) ==
  IF data = <<>> THEN [alert |-> "No data available.", raised |-> FALSE]
  ELSE IF ~HasCol(data, "lastPaymentReceivedOn") \/ ~HasCol(data, "lastAmountPaidEUR")
          \/ ~HasCol(data, "Date") \/ ~HasCol(data, "Subscription_Type")
  THEN [alert |-> "Data missing required columns",
        missing_cols |-> MissingCols(data, {"lastPaymentReceivedOn", "lastAmountPaidEUR",
                                            "Date", "Subscription_Type"}),
        raised |-> FALSE]
  ELSE
    LET df_clean == RevenueClean(data, Labels(data))
    IN IF EmptyGuard(df_clean)
       THEN [alert |-> "No data found after applying filters.", raised |-> FALSE]
       ELSE IF df_clean = <<>>
       \* idxmax of an empty column raises a ValueError
       THEN [raised |-> TRUE]
       ELSE
         LET total_days_period ==
               TotalDaysPeriod({PayAt(data, df_clean[k]) : k \in 1..Len(df_clean)})
             daily_sums == DailySums(data, df_clean)
             months == MonthsOf(daily_sums)
             total_rev_overall ==
               SumSeq([k \in 1..Len(df_clean) |-> AmountAt(data, df_clean[k])])
             active_days_count_global == Len(daily_sums)
         IN [alert |-> "",
             df_clean |-> df_clean,
             total_rev_overall |-> total_rev_overall,
             total_days_period |-> total_days_period,
             avg_daily_all_days |-> Ratio(total_rev_overall, total_days_period),
             active_days_count_global |-> active_days_count_global,
             avg_daily_active_days |->
               IF active_days_count_global > 0
               THEN Ratio(total_rev_overall, active_days_count_global)
               ELSE Ratio(0, 1),
             max_day_global |-> daily_sums[IdxMax(RevCol(daily_sums))],
             min_day_global |-> daily_sums[IdxMin(RevCol(daily_sums))],
             daily_sums |-> daily_sums,
             monthly_report |->
               [k \in 1..Len(months) |->
                  get_monthly_revenue_details(MonthGroup(daily_sums, months[k]))],
             raised |-> FALSE]

(***************************************************************************)
(* location_revenue_insights.update_location_insights                      *)
(***************************************************************************)
\* get_location_details of the location revenue page, on the daily sums of
\* one location.
get_location_revenue_details(loc, group, total_days_period) ==
  LET total_revenue == SumSeq(RevCol(group))
      active_days_count == Len(SelectSeq(group, LAMBDA row : row.Daily_Revenue > 0))
      max_day_idx == IdxMax(RevCol(group))
      min_day_idx == IdxMin(RevCol(group))
  IN [Location |-> loc,
      Total_Location_Revenue |-> total_revenue,
      Active_Days |-> active_days_count,
      Avg_Daily_Revenue |-> Ratio(total_revenue, total_days_period),
      Avg_Active_Day_Revenue |-> IF active_days_count > 0
                                 THEN Ratio(total_revenue, active_days_count)
                                 ELSE Ratio(0, 1),
      Max_Rev_Date |-> group[max_day_idx].Date,
      Max_Rev_Amt |-> group[max_day_idx].Daily_Revenue,
      Min_Rev_Date |-> group[min_day_idx].Date,
      Min_Rev_Amt |-> group[min_day_idx].Daily_Revenue]

update_location_insights(data) ==
  IF data = <<>> THEN [alert |-> "No data available.", raised |-> FALSE]
  ELSE IF ~HasCol(data, "lastPaymentReceivedOn") \/ ~HasCol(data, "lastAmountPaidEUR")
          \/ ~HasCol(data, "Date") \/ ~HasCol(data, "Location")
          \/ ~HasCol(data, "Subscription_Type")
  THEN [alert |-> "Data missing required columns", raised |-> FALSE]
  ELSE
    LET df_clean == RevenueClean(data, SelectSeq(Labels(data),
                                                 LAMBDA i : HasLocation(data, i)))
        locs == LocationsOf(data, df_clean)
    IN IF df_clean = <<>>
       THEN [alert |-> "No data found after applying filters (Type & Date).",
             raised |-> FALSE]
       ELSE
         LET total_days_period ==
               TotalDaysPeriod({PayAt(data, df_clean[k]) : k \in 1..Len(df_clean)})
             location_report ==
               [k \in 1..Len(locs) |->
                  get_location_revenue_details(
                    locs[k],
                    DailySums(data, SelectSeq(df_clean,
                                              LAMBDA i : data[i].Location = locs[k])),
                    total_days_period)]
         IN [alert |-> "",
             df_clean |-> df_clean,
             total_rev_overall |->
               SumSeq([k \in 1..Len(df_clean) |-> AmountAt(data, df_clean[k])]),
             total_days_period |-> total_days_period,
             location_report |-> location_report,
             top_loc_name |->
               location_report[IdxMax([k \in 1..Len(locs) |->
                                 location_report[k].Total_Location_Revenue])].Location,
             raised |-> FALSE]

(***************************************************************************)
(* volume_time.update_volume_time                                          *)
(***************************************************************************)
\* get_monthly_details of update_volume_time, on the daily counts of one
\* month.
get_monthly_volume_details(group) ==
  LET total_month_subs == SumSeq(CountCol(group))
      active_days_count == Len(group)
      max_idx == IdxMax(CountCol(group))
      min_idx == IdxMin(CountCol(group))
  IN [Month |-> MonthOfDay(group[1].Date),
      Total_Month_Subs |-> total_month_subs,
      Active_Days |-> active_days_count,
      Avg_All_Days |-> Ratio(total_month_subs, DaysPerMonth),
      Avg_Active_Days |-> IF active_days_count > 0
                          THEN Ratio(total_month_subs, active_days_count)
                          ELSE Ratio(0, 1),
      Max_Sub_Date |-> group[max_idx].Date,
      Max_Sub_Count |-> group[max_idx].Daily_Count,
      Min_Sub_Date |-> group[min_idx].Date,
      Min_Sub_Count |-> group[min_idx].Daily_Count]

update_volume_time(data) ==
  IF data = <<>> THEN [alert |-> "No data available.", raised |-> FALSE]
  ELSE IF ~HasCol(data, "Date") \/ ~HasCol(data, "Subscription_Type")
  THEN [alert |-> "Data missing required columns", raised |-> FALSE]
  ELSE
    LET df_clean == SelectSeq(Labels(data), LAMBDA i : HasDate(data, i))
    IN IF df_clean = <<>>
       THEN [alert |-> "No data found.", raised |-> FALSE]
       ELSE
         LET total_days_period ==
               TotalDaysPeriod({DateAt(data, df_clean[k]) : k \in 1..Len(df_clean)})
             daily_counts == DailyCounts(data, df_clean)
             months == MonthsOf(daily_counts)
         IN [alert |-> "",
             total_subs |-> Len(df_clean),
             total_days_period |-> total_days_period,
             count_active |->
               Len(SelectSeq(df_clean, LAMBDA i : TypeNorm(data, i) \in PaidTypes)),
             count_trial |-> Len(SelectSeq(df_clean, LAMBDA i : TypeNorm(data, i) = "trial")),
             count_cancelled |->
               Len(SelectSeq(df_clean, LAMBDA i : TypeNorm(data, i) = "cancelled")),
             avg_daily_global |-> Ratio(Len(df_clean), total_days_period),
             max_day_global |-> daily_counts[IdxMax(CountCol(daily_counts))],
             daily_counts |-> daily_counts,
             monthly_report |->
               [k \in 1..Len(months) |->
                  get_monthly_volume_details(MonthGroup(daily_counts, months[k]))],
             raised |-> FALSE]

(***************************************************************************)
(* cancellation_insights.update_cancellation_insights                      *)
(***************************************************************************)
update_cancellation_insights(data) ==
  IF data = <<>> THEN [alert |-> "No data available.", raised |-> FALSE]
  ELSE IF ~HasCol(data, "Date") \/ ~HasCol(data, "Subscription_Type")
  THEN [alert |-> "Data missing required columns", raised |-> FALSE]
  ELSE
    LET df == SelectSeq(Labels(data), LAMBDA i : HasDate(data, i) /\ HasType(data, i))
        total_records == Len(df)
        df_cancel == SelectSeq(df, LAMBDA i : TypeNorm(data, i) = "cancelled")
        daily_counts == DailyCounts(data, df_cancel)
    IN IF df_cancel = <<>>
       THEN [alert |-> "Great news! No cancellations found in the dataset.",
             raised |-> FALSE]
       ELSE [alert |-> "",
             df |-> df,
             df_cancel |-> df_cancel,
             total_records |-> total_records,
             total_days_period |->
               TotalDaysPeriod({DateAt(data, df[k]) : k \in 1..Len(df)}),
             total_cancellations |-> Len(df_cancel),
             cancellation_rate |-> IF total_records > 0
                                   THEN Ratio(Len(df_cancel) * 100, total_records)
                                   ELSE Ratio(0, 1),
             max_day_row |-> daily_counts[IdxMax(CountCol(daily_counts))],
             min_day_row |-> daily_counts[IdxMin(CountCol(daily_counts))],
             daily_counts |-> daily_counts,
             monthly_report |-> MonthlyStats(daily_counts),
             raised |-> FALSE]

(***************************************************************************)
(* location_cancellation_insights.update_location_cancel_insights          *)
(***************************************************************************)
\* A traffic total that is not taken per location.
TotalTraffic_AllLocations(data, df, loc) == Len(df)

\* total_subs_by_location.get(location_name, 0): the cleaned rows of the
\* location, cancelled or not.
TotalTraffic(data, df, loc) == Len(SelectSeq(df, LAMBDA i : data[i].Location = loc))

\* get_location_stats of the location cancellation page, for the location
\* loc.
get_location_cancel_stats(data, df, df_cancel, loc, total_days_period) ==
  LET group == DailyLocCounts(data, df_cancel, loc)
      total_loc_cancel == SumSeq(CountCol(group))
      total_loc_traffic == TotalTraffic(data, df, loc)
      max_idx == IdxMax(CountCol(group))
      min_idx == IdxMin(CountCol(group))
  IN [Location |-> loc,
      Total_Cancel |-> total_loc_cancel,
      Total_Traffic |-> total_loc_traffic,
      Churn_Rate |-> IF total_loc_traffic > 0
                     THEN Ratio(total_loc_cancel * 100, total_loc_traffic)
                     ELSE Ratio(0, 1),
      Avg_Daily_Cancel |-> Ratio(total_loc_cancel, total_days_period),
      Worst_Day_Date |-> group[max_idx].Date,
      Worst_Day_Count |-> group[max_idx].Daily_Count,
      Best_Day_Date |-> group[min_idx].Date,
      Best_Day_Count |-> group[min_idx].Daily_Count]

\* location_report.sort_values(by='Total_Cancel', ascending=False): the
\* rows by decreasing total, rows of equal total in their previous order.
RECURSIVE SortByTotalCancel(_)
SortByTotalCancel(report) ==
  IF report = <<>> THEN <<>>
  ELSE LET k == IdxMax([j \in 1..Len(report) |-> report[j].Total_Cancel])
       IN <<report[k]>>
          \o SortByTotalCancel([j \in 1..(Len(report) - 1) |->
                                  IF j < k THEN report[j] ELSE report[j + 1]])

update_location_cancel_insights(data) ==
  IF data = <<>> THEN [alert |-> "No data available.", raised |-> FALSE]
  ELSE IF ~HasCol(data, "Date") \/ ~HasCol(data, "Location")
          \/ ~HasCol(data, "Subscription_Type")
  THEN [alert |-> "Data missing required columns", raised |-> FALSE]
  ELSE
    LET df == SelectSeq(Labels(data), LAMBDA i : HasDate(data, i) /\ HasLocation(data, i)
                                              /\ HasType(data, i))
        df_cancel == SelectSeq(df, LAMBDA i : TypeNorm(data, i) = "cancelled")
        locs == LocationsOf(data, df_cancel)
    IN IF df_cancel = <<>>
       THEN [alert |-> "Great news! No cancellations found in the dataset.",
             raised |-> FALSE]
       ELSE
         LET total_days_period == TotalDaysPeriod({DateAt(data, df[k]) : k \in 1..Len(df)})
             location_report ==
               SortByTotalCancel(
                 [k \in 1..Len(locs) |->
                    get_location_cancel_stats(data, df, df_cancel, locs[k],
                                              total_days_period)])
         IN [alert |-> "",
             df |-> df,
             df_cancel |-> df_cancel,
             total_cancellations |-> Len(df_cancel),
             unique_locations_affected |-> Len(locs),
             location_report |-> location_report,
             top_loc_name |-> location_report[1].Location,
             raised |-> FALSE]

(***************************************************************************)
(* subscription_duration.update_duration_page                              *)
(*                                                                         *)
(* A duration is kept as a number of ticks; Duration_Days is that number   *)
(* divided by TicksPerDay.                                                 *)
(***************************************************************************)
\* df['initialSubsStartDate'] after pd.to_datetime(..., errors='coerce').
StartAt(data, i) == ToDatetime(data[i].initialSubsStartDate)

\* df['subscriptionCanceledAt'] after the conversion; the duration page
\* fills the column with NaT when the table does not have it.
CancelAt(data, i) ==
  IF HasCol(data, "subscriptionCanceledAt")
  THEN ToDatetime(data[i].subscriptionCanceledAt) ELSE NaT

\* df.dropna(subset=['initialSubsStartDate'])
DropNoStart(data, df) == SelectSeq(df, LAMBDA i : StartAt(data, i) # NaT)

\* sort_values(by=..., ascending=False) on the column key (a function of
\* the row label): descending, a missing value after every value, rows of
\* equal key in their former order.
RECURSIVE SortDesc(_, _)
SortDesc(df, key) ==
  IF df = <<>> THEN <<>>
  ELSE LET k == CHOOSE k \in 1..Len(df) :
                  /\ \A j \in 1..Len(df) : key[df[j]] <= key[df[k]]
                  /\ \A j \in 1..(k - 1) : key[df[j]] < key[df[k]]
       IN <<df[k]>> \o SortDesc(SubSeq(df, 1, k - 1) \o SubSeq(df, k + 1, Len(df)), key)

\* The deduplication keeping the last row of each User_ID.
DropDuplicates_KeepLast(data, df) ==
  LET keep == {k \in 1..Len(df) :
                 \A j \in (k + 1)..Len(df) : data[df[j]].User_ID # data[df[k]].User_ID}
      pos == Sorted(keep)
  IN [n \in 1..Len(pos) |-> df[pos[n]]]

\* drop_duplicates(subset=['User_ID'], keep='first'): a row stays when no
\* row before it has its User_ID (two missing ids are the same id).
DropDuplicates(data, df) ==
  LET keep == {k \in 1..Len(df) :
                 \A j \in 1..(k - 1) : data[df[j]].User_ID # data[df[k]].User_ID}
      pos == Sorted(keep)
  IN [n \in 1..Len(pos) |-> df[pos[n]]]

\* The start column of the table as a sort key.
StartKey(data) == [i \in 1..Len(data) |-> StartAt(data, i)]

\* df_dur of the duration page: rows with a start date, latest start first,
\* one row per User_ID.
DurationDedup(data) ==
  DropDuplicates(data, SortDesc(DropNoStart(data, Labels(data)), StartKey(data)))

\* A calculate_duration that measures every subscription up to now.
calculate_duration_ToNow(start, end, now_utc) ==
  [Duration |-> now_utc - start,
   Status |-> IF end # NaT THEN "Cancelled" ELSE "Active"]

\* calculate_duration(row): to the cancellation when there is one, to now
\* otherwise.
calculate_duration(start, end, now_utc) ==
  IF end # NaT
  THEN [Duration |-> end - start, Status |-> "Cancelled"]
  ELSE [Duration |-> now_utc - start, Status |-> "Active"]

\* apply(lambda x: x if x >= 0 else 0)
ClampNegative(x) == IF x >= 0 THEN x ELSE 0

\* df_dur['Duration_Days'] after the clamp, for the row of label i.
DurationAt(data, i, now_utc) ==
  ClampNegative(calculate_duration(StartAt(data, i), CancelAt(data, i), now_utc).Duration)

\* df_dur['Status'] for the row of label i.
StatusAt(data, i) == IF CancelAt(data, i) # NaT THEN "Cancelled" ELSE "Active"

\* end_range when max_days is None, in days.
DefaultEndRange == 99999

\* df_dur[(Duration_Days >= start_range) & (Duration_Days <= end_range)]
RangeFilter(data, df_dur, min_days, max_days, now_utc) ==
  LET start_range == IF min_days # NoneVal THEN min_days ELSE 0
      end_range == IF max_days # NoneVal THEN max_days ELSE DefaultEndRange
  IN SelectSeq(df_dur, LAMBDA i :
       /\ DurationAt(data, i, now_utc) >= start_range * TicksPerDay
       /\ DurationAt(data, i, now_utc) <= end_range * TicksPerDay)

\* Series.median() of a non-empty sequence of numbers.
Median(vals) ==
  LET n == Len(vals)
      ord == SortDesc([k \in 1..n |-> k], vals)
  IN IF n % 2 = 1 THEN Ratio(vals[ord[(n + 1) \div 2]], 1)
     ELSE Ratio(vals[ord[n \div 2]] + vals[ord[n \div 2 + 1]], 2)

\* The cards of the duration pages: mean, median, min and max of a column
\* of durations, all 0 when the column is empty.
DurationStats(vals) ==
  IF vals = <<>>
  THEN [mean |-> Ratio(0, 1), median |-> Ratio(0, 1), min |-> 0, max |-> 0]
  ELSE [mean |-> Ratio(SumSeq(vals), Len(vals)), median |-> Median(vals),
        min |-> Min(Range(vals)), max |-> Max(Range(vals))]

\* The alert returned by the except clause of a duration page.
ErrorAlert == [alert |-> "Error processing data", missing_cols |-> {}, raised |-> FALSE]

update_duration_page(data, min_days, max_days, now_utc) ==
  IF data = <<>>
  THEN [alert |-> "Global Data Store is empty.", missing_cols |-> {}, raised |-> FALSE]
  ELSE
    LET missing_cols == MissingCols(data, {"initialSubsStartDate", "subscriptionCanceledAt",
                                           "User_ID", "Company"})
    IN IF ~HasCol(data, "initialSubsStartDate")
       THEN [alert |-> "Data missing required columns", missing_cols |-> missing_cols,
             raised |-> FALSE]
       \* drop_duplicates(subset=['User_ID']) raises a KeyError: except clause
       ELSE IF ~HasCol(data, "User_ID") THEN ErrorAlert
       \* assigning the result of apply on an empty frame to two columns
       \* raises a ValueError: except clause
       ELSE IF DurationDedup(data) = <<>> THEN ErrorAlert
       \* df_filtered[table_cols] raises a KeyError: except clause
       ELSE IF ~HasCol(data, "Company") THEN ErrorAlert
       ELSE
         LET df_dur == DurationDedup(data)
             df_filtered == RangeFilter(data, df_dur, min_days, max_days, now_utc)
             Duration_Days == [i \in Range(df_dur) |-> DurationAt(data, i, now_utc)]
             vals == [k \in 1..Len(df_filtered) |-> Duration_Days[df_filtered[k]]]
         IN [alert |-> "", missing_cols |-> {},
             df_dur |-> df_dur,
             Duration_Days |-> Duration_Days,
             Status |-> [i \in Range(df_dur) |-> StatusAt(data, i)],
             df_filtered |-> df_filtered,
             total_subscribers |-> Len(df_filtered),
             stats |-> DurationStats(vals),
             table_data |-> SortDesc(df_filtered, Duration_Days),
             raised |-> FALSE]

(***************************************************************************)
(* user_retention.update_duration_buckets                                  *)
(***************************************************************************)
\* The column the retention page sorts on before the deduplication: the
\* raw Date of the store when the table has one (the page does not convert
\* it; a missing value sorts after every date), the start date otherwise.
RetentionSortKey(data) ==
  IF HasCol(data, "Date") THEN [i \in 1..Len(data) |-> data[i].Date]
  ELSE StartKey(data)

\* df_dur of the retention page: rows with a start date, latest sort key
\* first, one row per User_ID.
RetentionDedup(data) ==
  DropDuplicates(data, SortDesc(DropNoStart(data, Labels(data)), RetentionSortKey(data)))

\* fillna(0).clip(lower=0)
ClipLower(x) == IF x = NaN THEN 0 ELSE IF x < 0 THEN 0 ELSE x

\* df_dur['Duration_Days'] of the retention page for the row of label i.
RetentionDurationAt(data, i, now_utc) ==
  ClipLower(calculate_duration(StartAt(data, i), CancelAt(data, i), now_utc).Duration)

\* The thresholds of the survival funnel, in days.
SurvivalThresholds == <<0, 10, 30, 60, 365>>

\* A survival count that takes the users who reach the threshold.
get_survival_stats_AtLeast(durations, days_threshold) ==
  LET count == Len(SelectSeq(durations, LAMBDA d : d >= days_threshold * TicksPerDay))
  IN [count |-> count,
      pct_of_total |-> IF Len(durations) > 0 THEN Ratio(count * 100, Len(durations))
                       ELSE Ratio(0, 1)]

\* get_survival_stats(days_threshold): the users whose duration exceeds
\* the threshold and their share of all users, in percent.
get_survival_stats(durations, days_threshold) ==
  LET count == Len(SelectSeq(durations, LAMBDA d : d > days_threshold * TicksPerDay))
  IN [count |-> count,
      pct_of_total |-> IF Len(durations) > 0 THEN Ratio(count * 100, Len(durations))
                       ELSE Ratio(0, 1)]

\* The values of a non-empty sequence in ascending order.
Ascending(vals) ==
  LET n == Len(vals)
      ord == SortDesc([k \in 1..n |-> k], vals)
  IN [k \in 1..n |-> vals[ord[n + 1 - k]]]

\* The linear interpolation of quantile between the two order statistics
\* of asc around position (n - 1) * q / 4.
Interpolate(asc, q) ==
  LET lo == ((Len(asc) - 1) * q) \div 4
      r == ((Len(asc) - 1) * q) % 4
  IN IF r = 0 THEN Ratio(4 * asc[lo + 1], 4)
     ELSE Ratio(4 * asc[lo + 1] + r * (asc[lo + 2] - asc[lo + 1]), 4)

\* Series.quantile(q / 4) of a non-empty sequence: linear interpolation
\* between the two order statistics around position (n - 1) * q / 4.
Quantile(vals, q) == Interpolate(Ascending(vals), q)

\* Series.round(0).astype(int) of a duration in days: to the nearest whole
\* number of days, a half to the even neighbour.
Round(d) ==
  LET whole == d \div TicksPerDay
      rest == d % TicksPerDay
  IN IF 2 * rest < TicksPerDay THEN whole
     ELSE IF 2 * rest > TicksPerDay THEN whole + 1
     ELSE IF whole % 2 = 0 THEN whole ELSE whole + 1

\* The first positions of the distinct values of a sequence, ascending:
\* the order in which value_counts meets the values.
FirstSeen(vals) ==
  Sorted({k \in 1..Len(vals) : \A j \in 1..(k - 1) : vals[j] # vals[k]})

\* value_counts() with ties in reverse order of first occurrence.
ValueCounts_LastFirst(vals) ==
  LET first == FirstSeen(vals)
      rev == [k \in 1..Len(first) |-> first[Len(first) + 1 - k]]
      counts == [k \in 1..Len(vals) |-> Len(SelectSeq(vals, LAMBDA v : v = vals[k]))]
      ord == SortDesc(rev, counts)
  IN [k \in 1..Len(ord) |-> [days |-> vals[ord[k]], count |-> counts[ord[k]]]]

\* Series.value_counts(): the distinct values with their number of
\* occurrences, most frequent first, values of equal count in the order of
\* their first occurrence.
ValueCounts(vals) ==
  LET first == FirstSeen(vals)
      counts == [k \in 1..Len(vals) |-> Len(SelectSeq(vals, LAMBDA v : v = vals[k]))]
      ord == SortDesc(first, counts)
  IN [k \in 1..Len(ord) |-> [days |-> vals[ord[k]], count |-> counts[ord[k]]]]

\* The entry "-" of the mode cards.
NoMode == [days |-> NoneVal, count |-> 0]

\* mode_data: the head(3) of the value counts of the rounded durations,
\* filled with "-" up to three entries.
ModeData(durations) ==
  LET top == ValueCounts([k \in 1..Len(durations) |-> Round(durations[k])])
  IN [k \in 1..3 |-> IF k <= Len(top) THEN top[k] ELSE NoMode]

\* The month of a timestamp (dt.year * 12 + dt.month up to a constant).
MonthOf(t) == MonthOfDay(DateOf(t))

\* df_cohort['MonthOnBook'] of a cancelled row: the months from the month
\* of the start to the month of the cancellation.
MonthOnBook(data, i) == MonthOf(CancelAt(data, i)) - MonthOf(StartAt(data, i))

\* The share of a cohort that has cancelled, for the retention rate.
RetentionRate_Cancelled(cumulative, size) == Ratio(100 * cumulative, size)

\* cohort_table['RetentionRate']: 100 - cumulative / size * 100, in
\* percent; a cohort of size 0 has the rate 0 / 0, which is NaN.
RetentionRate(cumulative, size) == Ratio(100 * (size - cumulative), size)

\* cohort_table: one row per (CohortVintage, MonthOnBook) of the cancelled
\* users, sorted, with the cumulated cancellations and the retention rate
\* of the vintage.
CohortTable(data, df_dur) ==
  LET cancelled == SelectSeq(df_dur, LAMBDA i : CancelAt(data, i) # NaT)
      vintages == Sorted({MonthOf(StartAt(data, cancelled[k])) : k \in 1..Len(cancelled)})
      Size(v) == Cardinality({data[df_dur[k]].User_ID :
                                k \in {j \in 1..Len(df_dur) :
                                         /\ MonthOf(StartAt(data, df_dur[j])) = v
                                         /\ data[df_dur[j]].User_ID # NoneVal}})
      Of(v) == SelectSeq(cancelled, LAMBDA i : MonthOf(StartAt(data, i)) = v)
      Count(v, m) == Len(SelectSeq(Of(v), LAMBDA i :
                           MonthOnBook(data, i) = m /\ data[i].User_ID # NoneVal))
      Months(v) == Sorted({MonthOnBook(data, Of(v)[k]) : k \in 1..Len(Of(v))})
      Cumul(v, n) == SumSeq([k \in 1..n |-> Count(v, Months(v)[k])])
      RowsOf(v) == [n \in 1..Len(Months(v)) |->
                      [CohortVintage |-> v,
                       MonthOnBook |-> Months(v)[n],
                       MonthlyCancellations |-> Count(v, Months(v)[n]),
                       TotalCohortSize |-> Size(v),
                       CumulativeCancellations |-> Cumul(v, n),
                       RetentionRate |-> RetentionRate(Cumul(v, n), Size(v))]]
      RECURSIVE Concat(_)
      Concat(k) == IF k > Len(vintages) THEN <<>>
                   ELSE RowsOf(vintages[k]) \o Concat(k + 1)
  IN Concat(1)

\* heatmap_data: the retention rates pivoted on the vintage (rows) and the
\* month on book (columns), cells without a rate left out by pivot_table,
\* then ffill(axis=1) along each row and fillna(100) for the cells that
\* have no rate to their left.
HeatmapData(cohort_table) ==
  LET cells == SelectSeq(cohort_table, LAMBDA row : row.RetentionRate.den # 0)
      index == Sorted({cells[k].CohortVintage : k \in 1..Len(cells)})
      columns == Sorted({cells[k].MonthOnBook : k \in 1..Len(cells)})
      Known(v, j) == {k \in 1..Len(cells) :
                        /\ cells[k].CohortVintage = v
                        /\ \E c \in 1..j : cells[k].MonthOnBook = columns[c]}
      Last(v, j) == CHOOSE k \in Known(v, j) :
                      \A l \in Known(v, j) : cells[l].MonthOnBook <= cells[k].MonthOnBook
  IN [index |-> index,
      columns |-> columns,
      values |-> [r \in 1..Len(index) |->
                    [j \in 1..Len(columns) |->
                       IF Known(index[r], j) = {} THEN Ratio(100, 1)
                       ELSE cells[Last(index[r], j)].RetentionRate]]]

update_duration_buckets(data, now_utc) ==
  IF data = <<>>
  THEN [alert |-> "Global Data Store is empty.", missing_cols |-> {}, raised |-> FALSE]
  ELSE
    LET missing_cols == MissingCols(data, {"initialSubsStartDate", "User_ID", "Company"})
    IN IF missing_cols # {}
       THEN [alert |-> "Data missing required columns", missing_cols |-> missing_cols,
             raised |-> FALSE]
       \* assigning the result of apply on an empty frame to two columns
       \* raises a ValueError: except clause
       ELSE IF RetentionDedup(data) = <<>> THEN ErrorAlert
       ELSE
         LET df_dur == RetentionDedup(data)
             Duration_Days == [i \in Range(df_dur) |-> RetentionDurationAt(data, i, now_utc)]
             durations == [k \in 1..Len(df_dur) |-> Duration_Days[df_dur[k]]]
             df_cancelled_only == SelectSeq(df_dur, LAMBDA i : StatusAt(data, i) = "Cancelled")
             stats_series == [k \in 1..Len(df_cancelled_only) |->
                                Duration_Days[df_cancelled_only[k]]]
             cohort_table == CohortTable(data, df_dur)
         IN [alert |-> "", missing_cols |-> {},
             df_dur |-> df_dur,
             Duration_Days |-> Duration_Days,
             Status |-> [i \in Range(df_dur) |-> StatusAt(data, i)],
             total_unique_users |-> Len(df_dur),
             survival |-> [k \in 1..Len(SurvivalThresholds) |->
                             get_survival_stats(durations, SurvivalThresholds[k])],
             df_cancelled_only |-> df_cancelled_only,
             stats |-> DurationStats(stats_series),
             emp_p25_val |-> IF stats_series = <<>> THEN Ratio(0, 1)
                             ELSE Quantile(stats_series, 1),
             emp_p75_val |-> IF stats_series = <<>> THEN Ratio(0, 1)
                             ELSE Quantile(stats_series, 3),
             mode_data |-> IF stats_series = <<>> THEN [k \in 1..3 |-> NoMode]
                           ELSE ModeData(stats_series),
             cohort_table |-> cohort_table,
             heatmap_data |-> HeatmapData(cohort_table),
             x_values |-> HeatmapData(cohort_table).columns,
             table_data |-> SortDesc(df_dur, Duration_Days),
             raised |-> FALSE]

(***************************************************************************)
(* Time_to_First_Subscription.update_first_sub_page                        *)
(***************************************************************************)
\* df['customerCreatedTimeUTC'] after pd.to_datetime(..., errors='coerce').
CreatedAt(data, i) == ToDatetime(data[i].customerCreatedTimeUTC)

\* sort_values(by='initialSubsStartDate', ascending=True): ascending, rows
\* of equal key in their former order.
RECURSIVE SortAsc(_, _)
SortAsc(df, key) ==
  IF df = <<>> THEN <<>>
  ELSE LET k == CHOOSE k \in 1..Len(df) :
                  /\ \A j \in 1..Len(df) : key[df[j]] >= key[df[k]]
                  /\ \A j \in 1..(k - 1) : key[df[j]] > key[df[k]]
       IN <<df[k]>> \o SortAsc(SubSeq(df, 1, k - 1) \o SubSeq(df, k + 1, Len(df)), key)

\* first_subs: rows with a start date, earliest start first, one row per
\* User_ID.
FirstSubs(data) ==
  DropDuplicates(data, SortAsc(DropNoStart(data, Labels(data)), StartKey(data)))

\* (initialSubsStartDate - customerCreatedTimeUTC): missing when the
\* creation time is missing.
DaysToFirstSub(start, created) == IF created = NaT THEN NaN ELSE start - created

\* apply(lambda x: x if x >= 0 else 0): a comparison with a missing number
\* is false, so a missing value becomes 0 too.
CleanNegative(x) == IF x # NaN /\ x >= 0 THEN x ELSE 0

update_first_sub_page(data) ==
  IF data = <<>>
  THEN [alert |-> "Global Data Store is empty.", missing_cols |-> {}, raised |-> FALSE]
  ELSE
    LET missing_cols == MissingCols(data, {"customerCreatedTimeUTC", "initialSubsStartDate",
                                           "User_ID", "Company"})
    IN IF missing_cols # {}
       THEN [alert |-> "Data missing required columns", missing_cols |-> missing_cols,
             raised |-> FALSE]
       ELSE
         LET first_subs == FirstSubs(data)
             Days_to_First_Sub ==
               [i \in Range(first_subs) |->
                  CleanNegative(DaysToFirstSub(StartAt(data, i), CreatedAt(data, i)))]
             vals == [k \in 1..Len(first_subs) |-> Days_to_First_Sub[first_subs[k]]]
         IN [alert |-> "", missing_cols |-> {},
             first_subs |-> first_subs,
             Days_to_First_Sub |-> Days_to_First_Sub,
             total_subscribers |-> Len(first_subs),
             stats |-> DurationStats(vals),
             table_data |-> SortAsc(first_subs, Days_to_First_Sub),
             raised |-> FALSE]

(***************************************************************************)
(* prophet_employee_forecast.update_prophet_employee_forecast: the         *)
(* cleaning and the filters that build the history handed to the Prophet   *)
(* fit.  The fitted predictions are numbers computed from that history     *)
(* and are not part of the response kept here.                             *)
(***************************************************************************)
\* Series.str.strip() on the spellings of the model.
Strip(s) ==
  CASE s = " new" -> "new"
    [] s = " cancellation " -> "cancellation"
    [] s = " New" -> "New"
    [] OTHER -> s

\* replace({'canceled': 'cancelled', 'cancellation': 'cancelled'})
Synonym(s) ==
  CASE s = "canceled" -> "cancelled"
    [] s = "cancellation" -> "cancelled"
    [] OTHER -> s

\* df['Subscription_Type'] of the forecast pages: astype(str), lower-cased,
\* stripped and passed through the synonym table.
ForecastType(data, i) == Synonym(Strip(Lower(data[i].Subscription_Type)))

\* df['Date'] of the forecast pages: the payment date when the table has
\* the column, the event date otherwise.
ForecastDateAt(data, i) ==
  IF HasCol(data, "lastPaymentReceivedOn") THEN PayAt(data, i) ELSE DateAt(data, i)

\* valid_types of the employee forecast.
ForecastTypes == {"new", "renewed", "upgraded", "trial", "cancelled"}

\* df_clean after the user filters: a known type and a date, the date
\* range when both ends are given, the selected types.
ForecastClean(data, start_date, end_date, selected_types) ==
  SelectSeq(Labels(data), LAMBDA i :
    /\ ForecastType(data, i) \in ForecastTypes
    /\ ForecastDateAt(data, i) # NaT
    /\ (start_date # NoneVal /\ end_date # NoneVal)
         => /\ ForecastDateAt(data, i) >= DayStart(start_date)
            /\ ForecastDateAt(data, i) <= DayStart(end_date)
    /\ selected_types # {} => ForecastType(data, i) \in selected_types)

\* len(daily_df) < 5: the fewest daily points for which a model is fitted.
MinDailyPoints == 5

\* The day of row i on the forecast pages.
ForecastDay(data, i) == DateOf(ForecastDateAt(data, i))

\* global_max_date, as a day.
GlobalMaxDay(data, df) == Max({ForecastDay(data, i) : i \in Range(df)})

\* len(daily_df) for type t: the daily series of a type runs from the
\* first day of the type to global_max_date, days without a row included;
\* typ gives the normalised type of every label.
DailyPoints(data, df, typ, t) ==
  LET days == {ForecastDay(data, i) : i \in {j \in Range(df) : typ[j] = t}}
  IN IF days = {} THEN 0 ELSE GlobalMaxDay(data, df) - Min(days) + 1

\* The types for which Prophet is fitted.
FittedTypes(data, df, typ, types) ==
  {t \in types : DailyPoints(data, df, typ, t) >= MinDailyPoints}

\* np.zeros(int(days_to_predict))
Zeros(n) == [k \in 1..n |-> 0]

\* A forecast passed on as the model returns it.
ClampYhat_Identity(y) == y

\* np.maximum(yhat, 0)
ClampYhat(y) == IF y > 0 THEN y ELSE 0

\* np.round of a number of halves: the nearest integer, a half to the even
\* neighbour.
RoundHalves(h) ==
  IF h % 2 = 0 THEN h \div 2
  ELSE IF (h \div 2) % 2 = 0 THEN h \div 2 ELSE h \div 2 + 1

\* future_dates: None when no model was fitted, the days after
\* global_max_date otherwise.
FutureDates(data, df, typ, types, days_to_predict) ==
  IF FittedTypes(data, df, typ, types) = {} THEN [none |-> TRUE, days |-> <<>>]
  ELSE [none |-> FALSE, days |-> [k \in 1..days_to_predict |-> GlobalMaxDay(data, df) + k]]

\* preds_total: the entry-wise sum of the series of the types.
RECURSIVE SumSeries(_, _, _)
SumSeries(preds, types, n) ==
  IF types = {} THEN Zeros(n)
  ELSE LET t == CHOOSE t \in types : TRUE
           rest == SumSeries(preds, types \ {t}, n)
       IN [k \in 1..n |-> preds[t][k] + rest[k]]

\* The result dictionary of the prediction functions from the series of
\* the types.
ForecastResult(preds, types, dates, n, history) ==
  LET total == SumSeries(preds, types, n)
      all == [t \in types \cup {"total"} |-> IF t = "total" THEN total ELSE preds[t]]
  IN [none |-> FALSE,
      sums |-> [t \in DOMAIN all |-> SumSeq(all[t])],
      dates |-> dates,
      preds |-> all,
      history |-> history]

\* get_prophet_employee_count(df_in, days_to_predict): yhat[t] is the
\* tail of the forecast of the model fitted for type t, in halves of a
\* subscription.
get_prophet_employee_count(data, df, days_to_predict, yhat) ==
  IF df = <<>> THEN [none |-> TRUE]
  ELSE
    LET typ == [i \in Range(df) |-> ForecastType(data, i)]
        fitted == FittedTypes(data, df, typ, ForecastTypes)
        preds == [t \in ForecastTypes |->
                    IF t \in fitted
                    THEN [k \in 1..days_to_predict |-> RoundHalves(ClampYhat(yhat[t][k]))]
                    ELSE Zeros(days_to_predict)]
    IN ForecastResult(preds, ForecastTypes,
                      FutureDates(data, df, typ, ForecastTypes, days_to_predict),
                      days_to_predict,
                      [t \in ForecastTypes |->
                         Len(SelectSeq(df, LAMBDA i : typ[i] = t))])

\* The response before the button is pressed or when nothing can be fitted.
ForecastEmpty(title) ==
  [title |-> title, history |-> [t \in ForecastTypes |-> 0], raised |-> FALSE]

\* The connector trace reads f_dates[0] while f_dates is None: TypeError.
ForecastRaised == [title |-> "TypeError", raised |-> TRUE]

\* add_traces with the connector guard of a forecast page.
ConnectorRaises(result, days_to_predict) ==
  days_to_predict > 0 /\ result.dates.none

update_prophet_employee_forecast(n_clicks, data, days, start_date, end_date, selected_types, yhat) ==
  IF data = <<>> THEN ForecastEmpty("No Data")
  ELSE IF n_clicks = NoneVal
  THEN ForecastEmpty("Click 'Generate Forecast' to see predictions")
  ELSE IF ~HasCol(data, "lastPaymentReceivedOn") /\ ~HasCol(data, "Date")
  THEN ForecastEmpty("No Data")
  ELSE IF ~HasCol(data, "Subscription_Type") THEN ForecastEmpty("No Data")
  ELSE
    LET df_clean == ForecastClean(data, start_date, end_date, selected_types)
        result == get_prophet_employee_count(data, df_clean, days, yhat)
    IN IF result.none THEN ForecastEmpty("No Data")
       ELSE IF ConnectorRaises(result, days) THEN ForecastRaised
       ELSE [title |-> "Forecast",
             history |-> result.history,
             sums |-> result.sums,
             dates |-> result.dates,
             preds |-> result.preds,
             raised |-> FALSE]

(***************************************************************************)
(* prophet_forecast: remove_outliers_iqr, get_prophet_revenue_prediction   *)
(* and update_prophet_forecast                                             *)
(***************************************************************************)
\* if len(df) < 20: return df
OutlierMinRows == 20

\* Eight times lower_bound and upper_bound from four times the quartiles:
\* Q1 - 1.5 * IQR and Q3 + 1.5 * IQR.
BoundsOf(Q1, Q3) ==
  [lower |-> 2 * Q1 - 3 * (Q3 - Q1), upper |-> 2 * Q3 + 3 * (Q3 - Q1)]

\* The bounds of remove_outliers_iqr for the revenues vals.
IqrBounds(vals) == BoundsOf(Quantile(vals, 1).num, Quantile(vals, 3).num)

\* df[(df['Revenue'] >= lower_bound) & (df['Revenue'] <= upper_bound)]
WithinBounds(df, Revenue, b) ==
  SelectSeq(df, LAMBDA i : 8 * Revenue[i] >= b.lower /\ 8 * Revenue[i] <= b.upper)

\* remove_outliers_iqr(df): Revenue gives the revenue of every label.
remove_outliers_iqr(df, Revenue) ==
  IF Len(df) < OutlierMinRows THEN df
  ELSE WithinBounds(df, Revenue, IqrBounds([k \in 1..Len(df) |-> Revenue[df[k]]]))

\* df['Revenue'] of the revenue forecast: the amount paid, else the
\* package amount, else 0; values that are no numbers count as 0.
ForecastRevenue(data, i) ==
  IF HasCol(data, "lastAmountPaidEUR") THEN AmountFilled(data, i)
  ELSE IF HasCol(data, "Revenue")
  THEN (IF ToNumeric(data[i].Revenue) = NaN THEN 0 ELSE ToNumeric(data[i].Revenue))
  ELSE 0

\* df['Subscription_Type'] of the revenue forecast: lower-cased and
\* stripped.
RevenueForecastType(data, i) == Strip(Lower(data[i].Subscription_Type))

\* valid_types of the revenue forecast.
RevenueForecastTypes == {"new", "renewed", "upgraded"}

\* df_clean of update_prophet_forecast.
RevenueForecastClean(data) ==
  SelectSeq(Labels(data), LAMBDA i :
    /\ RevenueForecastType(data, i) \in RevenueForecastTypes
    /\ ForecastDateAt(data, i) # NaT)

\* get_prophet_revenue_prediction(df_in, days_to_predict): yhat[t] is the
\* tail of the forecast of the model fitted for type t.
get_prophet_revenue_prediction(data, df_in, days_to_predict, yhat) ==
  IF df_in = <<>> THEN [none |-> TRUE]
  ELSE
    LET Revenue == [i \in Range(df_in) |-> ForecastRevenue(data, i)]
        df == remove_outliers_iqr(df_in, Revenue)
        typ == [i \in Range(df) |-> RevenueForecastType(data, i)]
        fitted == FittedTypes(data, df, typ, RevenueForecastTypes)
        preds == [t \in RevenueForecastTypes |->
                    IF t \in fitted
                    THEN [k \in 1..days_to_predict |-> ClampYhat(yhat[t][k])]
                    ELSE Zeros(days_to_predict)]
    IN ForecastResult(preds, RevenueForecastTypes,
                      FutureDates(data, df, typ, RevenueForecastTypes, days_to_predict),
                      days_to_predict,
                      [t \in RevenueForecastTypes |->
                         SumSeq([k \in 1..Len(df) |->
                                   IF typ[df[k]] = t THEN Revenue[df[k]] ELSE 0])])

update_prophet_forecast(n_clicks, data, days, yhat) ==
  IF data = <<>> THEN ForecastEmpty("No Data")
  ELSE IF n_clicks = NoneVal
  THEN ForecastEmpty("Click 'Generate Future Forecast' to see predictions")
  ELSE IF ~HasCol(data, "lastPaymentReceivedOn") /\ ~HasCol(data, "Date")
  THEN ForecastEmpty("No Data")
  ELSE IF ~HasCol(data, "Subscription_Type") THEN ForecastEmpty("No Data")
  ELSE
    LET result == get_prophet_revenue_prediction(data, RevenueForecastClean(data), days, yhat)
    IN IF result.none THEN ForecastEmpty("No Data")
       ELSE IF ConnectorRaises(result, days) THEN ForecastRaised
       ELSE [title |-> "Forecast",
             history |-> result.history,
             sums |-> result.sums,
             dates |-> result.dates,
             preds |-> result.preds,
             raised |-> FALSE]

(***************************************************************************)
(* subscription_pre: get_employee_count_prediction and                     *)
(* update_employee_forecast                                                *)
(***************************************************************************)
\* The rows of df_pivot: the days that have a row.
PivotDays(data, df) == {ForecastDay(data, i) : i \in Range(df)}

\* The types that occur in df: the columns of df_pivot that are not zero
\* throughout, the only ones for which the forest can predict other than 0.
TypesPresent(data, df) == {ForecastType(data, i) : i \in Range(df)}

\* get_employee_count_prediction(df_in, days_to_predict): yhat[t] is what
\* the random forest predicts for type t, in halves of a subscription.
get_employee_count_prediction(data, df, days_to_predict, yhat) ==
  IF df = <<>> THEN [none |-> TRUE]
  ELSE IF Cardinality(PivotDays(data, df)) < MinDailyPoints THEN [none |-> TRUE]
  ELSE
    LET present == TypesPresent(data, df)
        preds == [t \in ForecastTypes |->
                    IF t \in present
                    THEN [k \in 1..days_to_predict |-> RoundHalves(ClampYhat(yhat[t][k]))]
                    ELSE Zeros(days_to_predict)]
    IN ForecastResult(preds, ForecastTypes,
                      [none |-> FALSE,
                       days |-> [k \in 1..days_to_predict |-> GlobalMaxDay(data, df) + k]],
                      days_to_predict,
                      [t \in ForecastTypes |->
                         Len(SelectSeq(df, LAMBDA i : ForecastType(data, i) = t))])

update_employee_forecast(n_clicks, data, days, start_date, end_date, selected_types, yhat) ==
  IF data = <<>> THEN ForecastEmpty("No Data")
  ELSE IF n_clicks = NoneVal
  THEN ForecastEmpty("Click 'Generate Forecast' to see predictions")
  ELSE IF ~HasCol(data, "lastPaymentReceivedOn") /\ ~HasCol(data, "Date")
  THEN ForecastEmpty("No Data")
  ELSE IF ~HasCol(data, "Subscription_Type") THEN ForecastEmpty("No Data")
  ELSE
    LET df_clean == ForecastClean(data, start_date, end_date, selected_types)
        result == get_employee_count_prediction(data, df_clean, days, yhat)
    IN IF result.none THEN ForecastEmpty("No Data")
       ELSE [title |-> "Forecast",
             history |-> result.history,
             sums |-> result.sums,
             dates |-> result.dates,
             preds |-> result.preds,
             raised |-> FALSE]

(***************************************************************************)
(* xgboost_revenue_forecast: get_xgboost_revenue_prediction and            *)
(* update_forecast                                                         *)
(***************************************************************************)
\* astype(str).str.title() on the spellings of the model.
Title(s) ==
  CASE s = "New" -> "New"
    [] s = "NEW" -> "New"
    [] s = "new" -> "New"
    [] s = " new" -> " New"
    [] s = "Renewed" -> "Renewed"
    [] s = "renewed" -> "Renewed"
    [] s = "Upgraded" -> "Upgraded"
    [] OTHER -> s

\* required_cols of the XGBoost revenue forecast.
XgbTypes == {"New", "Renewed", "Upgraded"}

\* df['Subscription_Type'] of the XGBoost revenue forecast: title-cased and
\* stripped.
XgbType(data, i) == Strip(Title(data[i].Subscription_Type))

\* df_clean of update_forecast.
XgbClean(data) ==
  SelectSeq(Labels(data), LAMBDA i :
    XgbType(data, i) \in XgbTypes /\ ForecastDateAt(data, i) # NaT)

\* The outlier step of get_xgboost_revenue_prediction: if len(df) > 20.
XgbRemoveOutliers(df, Revenue) ==
  IF Len(df) > OutlierMinRows
  THEN WithinBounds(df, Revenue, IqrBounds([k \in 1..Len(df) |-> Revenue[df[k]]]))
  ELSE df

\* get_xgboost_revenue_prediction(df_in, days_to_predict): yhat[t] is what
\* the regressor of column t predicts for the future days.
get_xgboost_revenue_prediction(data, df_in, days_to_predict, yhat) ==
  IF df_in = <<>> THEN [none |-> TRUE]
  ELSE
    LET Revenue == [i \in Range(df_in) |-> AmountFilled(data, i)]
        df == XgbRemoveOutliers(df_in, Revenue)
    IN IF Cardinality(PivotDays(data, df)) < MinDailyPoints THEN [none |-> TRUE]
       ELSE
         LET preds == [t \in XgbTypes |->
                         [k \in 1..days_to_predict |-> ClampYhat(yhat[t][k])]]
         IN ForecastResult(preds, XgbTypes,
                           [none |-> FALSE,
                            days |-> [k \in 1..days_to_predict |->
                                        GlobalMaxDay(data, df) + k]],
                           days_to_predict,
                           [t \in XgbTypes |->
                              SumSeq([k \in 1..Len(df) |->
                                        IF XgbType(data, df[k]) = t
                                        THEN Revenue[df[k]] ELSE 0])])

\* The response of update_forecast when there is nothing to predict from.
XgbEmpty == [title |-> "No Data", raised |-> FALSE]

\* A column the callback reads is not in the table: KeyError.
XgbRaised == [title |-> "KeyError", raised |-> TRUE]

update_forecast(n_clicks, data, days, yhat) ==
  IF data = <<>> \/ n_clicks = NoneVal THEN XgbEmpty
  ELSE IF ~HasCol(data, "Subscription_Type") THEN XgbRaised
  ELSE IF ~HasCol(data, "lastPaymentReceivedOn") /\ ~HasCol(data, "Date") THEN XgbRaised
  ELSE
    LET result == get_xgboost_revenue_prediction(data, XgbClean(data), days, yhat)
    IN IF result.none THEN XgbEmpty
       ELSE [title |-> "Revenue Forecast (XGBoost)",
             history |-> result.history,
             sums |-> result.sums,
             dates |-> result.dates,
             preds |-> result.preds,
             raised |-> FALSE]

(***************************************************************************)
(* Data.get_localsqldata.load_data and the start of main/app.py            *)
(***************************************************************************)
\* column_mapping: the name load_data gives to a column of the table.
ColumnMapping(c) ==
  CASE c = "dateUTC" -> "Date"
    [] c = "type" -> "Subscription_Type"
    [] c = "companyName" -> "Company"
    [] c = "country" -> "Location"
    [] c = "currentPackageAmountEUR" -> "Revenue"
    [] c = "userStatus" -> "User_Status"
    [] c = "recruitMode" -> "Recruit_Mode"
    [] c = "currentPackageName" -> "Package_Name"
    [] c = "cancellationReason" -> "Cancellation_Reason"
    [] c = "userID" -> "User_ID"
    [] OTHER -> c

\* df.rename(columns=column_mapping) on one record.
Rename(r) ==
  [f \in {ColumnMapping(c) : c \in DOMAIN r} |->
     r[CHOOSE c \in DOMAIN r : ColumnMapping(c) = f]]

\* A load_data that prints nothing when the fetch fails.
load_data_Silent(db) ==
  IF ~db.up
  THEN [none |-> TRUE, rows |-> <<>>, printed |-> <<"Connecting to Local Database">>]
  ELSE [none |-> FALSE, rows |-> [i \in 1..Len(db.rows) |-> Rename(db.rows[i])],
        printed |-> <<"Connecting to Local Database">>]

\* load_data(): one SELECT * FROM graph_subscription inside a try.  The
\* result is None when the read raises, the empty table when the table is
\* empty, the renamed table otherwise; printed are the lines it prints.
load_data(db) ==
  IF ~db.up
  THEN [none |-> TRUE, rows |-> <<>>,
        printed |-> <<"Connecting to Local Database",
                      "Error fetching data from local SQL">>]
  ELSE IF db.rows = <<>>
  THEN [none |-> FALSE, rows |-> <<>>,
        printed |-> <<"Connecting to Local Database",
                      "Connection successful, but the table 'graph_subscription' is empty.">>]
  ELSE [none |-> FALSE, rows |-> [i \in 1..Len(db.rows) |-> Rename(db.rows[i])],
        printed |-> <<"Connecting to Local Database",
                      "Success! Loaded rows and renamed columns.">>]

\* initial_data = df.to_dict('records') if df is not None else []
initial_data(df) == IF df.none THEN <<>> ELSE df.rows

(***************************************************************************)
(* The filter widgets: the options offered for a table and the values a    *)
(* user can select.                                                        *)
(***************************************************************************)
\* country_opts of the update_*_filter_options callbacks.
CountryOptions(data) ==
  IF HasCol(data, "Location")
  THEN {data[i].Location : i \in 1..Len(data)} \ {NoneLoc} ELSE {}

\* type_opts of the update_*_filter_options callbacks.
TypeOptions(data) ==
  IF HasCol(data, "Subscription_Type")
  THEN {data[i].Subscription_Type : i \in 1..Len(data)} \ {NoneType} ELSE {}

\* type_opts of update_paid_filter_options: the types of the data that are
\* New, Renewed or Upgraded whatever their letter case.
PaidTypeOptions(data) == {t \in TypeOptions(data) : Lower(t) \in PaidTypes}

\* month_opts of the monthly pages: the months that have a dated row.
MonthOptions(data) ==
  IF HasCol(data, "Date")
  THEN {MonthOfDay(DateOf(DateAt(data, i))) : i \in 1..Len(data)} \ {NaT} ELSE {}

\* The values of a date picker: no date, or a day of the calendar.
PickableDays == {NoneVal} \cup (0..MaxDay)

(***************************************************************************)
(* Actions: a page callback runs on the store and the widget values and    *)
(* returns its outputs.  No callback has the store as an Output.  The      *)
(* server handles one request at a time and keeps nothing of a response    *)
(* once it is sent: a callback starts when no response is pending, and     *)
(* Deliver hands the pending response to the browser.                      *)
(***************************************************************************)
\* Nothing has been returned yet, or the last response was delivered.
NoOutput == [cb |-> "none", args |-> <<>>, res |-> <<>>]

\* The response of callback cb, called with args, returning res.
Response(cb, args, res) == [cb |-> cb, args |-> args, res |-> res]

\* The component every callback would write to if it published a table.
OutputsOf_WithStore(cb) == {"global-data-store"}

\* The Output list of the @app.callback decorator of each page callback.
OutputsOf(cb) ==
  CASE cb = "update_first_sub_page" ->
         {"first-sub-content"}
    [] cb = "update_cancellation_insights" ->
         {"cancellation-content"}
    [] cb = "update_daily_overview" ->
         {"card-total", "card-new", "card-trial", "card-renewed",
          "card-upgraded", "card-cancelled", "daily-type-bar-graph"}
    [] cb = "update_paid_overview" ->
         {"card-paid-total", "card-paid-revenue", "card-paid-new",
          "card-paid-renewed", "card-paid-upgraded", "paid-bar-graph"}
    [] cb = "update_cmp_overview" ->
         {"cmp-card-total-all", "cmp-card-total-paid",
          "cmp-card-paid-percent", "cmp-card-total-revenue",
          "cmp-paid-bar-graph"}
    [] cb = "update_location_cancel_insights" ->
         {"location-cancel-content"}
    [] cb = "update_location_paid_insights" ->
         {"location-paid-content"}
    [] cb = "update_location_insights" ->
         {"location-insights-content"}
    [] cb = "update_monthly_overview" ->
         {"card-total-m", "card-new-m", "card-trial-m",
          "card-renewed-m", "card-upgraded-m", "card-cancelled-m",
          "monthly-type-bar-graph"}
    [] cb = "update_cmp_month_overview" ->
         {"cmp-month-card-total-all", "cmp-month-card-total-paid",
          "cmp-month-card-paid-percent",
          "cmp-month-card-total-revenue", "cmp-month-bar-graph"}
    [] cb = "update_package_overview" ->
         {"card-total-pkg", "card-premium", "card-professional",
          "card-standard", "package-donut-chart"}
    [] cb = "update_paid_subs_insights" ->
         {"paid-subs-content"}
    [] cb = "update_prophet_employee_forecast" ->
         {"prophet-emp-card-total-pred", "prophet-emp-card-new-pred",
          "prophet-emp-card-renewed-pred",
          "prophet-emp-card-upgraded-pred",
          "prophet-emp-card-trial-pred",
          "prophet-emp-card-cancelled-pred", "prophet-emp-graph",
          "prophet-emp-card-total-title",
          "prophet-emp-card-new-title",
          "prophet-emp-card-renewed-title",
          "prophet-emp-card-upgraded-title",
          "prophet-emp-card-trial-title",
          "prophet-emp-card-cancelled-title"}
    [] cb = "update_prophet_forecast" ->
         {"prophet-card-total-pred", "prophet-card-new-pred",
          "prophet-card-renewed-pred", "prophet-card-upgraded-pred",
          "prophet-graph", "prophet-card-total-title", "prophet-card-new-title",
          "prophet-card-renewed-title", "prophet-card-upgraded-title"}
    [] cb = "update_employee_forecast" ->
         {"emp-card-total-pred", "emp-card-new-pred", "emp-card-renewed-pred",
          "emp-card-upgraded-pred", "emp-card-trial-pred", "emp-card-cancelled-pred",
          "emp-forecast-graph", "emp-card-total-title", "emp-card-new-title",
          "emp-card-renewed-title", "emp-card-upgraded-title",
          "emp-card-trial-title", "emp-card-cancelled-title"}
    [] cb = "update_forecast" ->
         {"xgb-rev-total", "xgb-rev-new", "xgb-rev-renewed", "xgb-rev-upgraded",
          "xgb-rev-graph"}
    [] cb = "update_insights" ->
         {"insights-content"}
    [] cb = "update_duration_page" ->
         {"duration-content"}
    [] cb = "update_duration_buckets" ->
         {"duration-buckets-content"}
    [] cb = "update_volume_location" ->
         {"volume-location-content"}
    [] cb = "update_volume_time" ->
         {"volume-time-content"}

\* The content of global-data-store once callback cb has returned res on
\* the content data: Dash writes a return value to the components of the
\* Output list and to nothing else; the Input value is a copy the callback
\* cannot write back.
StoreAfter(cb, data, res) ==
  IF "global-data-store" \in OutputsOf(cb) THEN res ELSE data

\* A page callback can start: the application has started (the table was
\* read and the layout published) and no response is pending.
Ready == attempts > 0 /\ out = NoOutput

Deliver ==
  /\ out # NoOutput
  /\ out' = NoOutput
  /\ UNCHANGED <<store, env>>

CmpOverview ==
  /\ Ready
  /\ \E sd \in PickableDays, ed \in PickableDays,
     sc \in SUBSET CountryOptions(store), st \in SUBSET TypeOptions(store) :
    out' = Response("update_cmp_overview",
             [start_date |-> sd, end_date |-> ed, selected_countries |-> sc,
              selected_types |-> st],
             update_cmp_overview(store, sd, ed, sc, st))
  /\ store' = StoreAfter(out'.cb, store, out'.res)
  /\ UNCHANGED env

CmpMonthOverview ==
  /\ Ready
  /\ \E sm \in SUBSET MonthOptions(store),
     sc \in SUBSET CountryOptions(store), st \in SUBSET TypeOptions(store) :
    out' = Response("update_cmp_month_overview",
             [selected_months |-> sm, selected_countries |-> sc, selected_types |-> st],
             update_cmp_month_overview(store, sm, sc, st))
  /\ store' = StoreAfter(out'.cb, store, out'.res)
  /\ UNCHANGED env

PaidOverview ==
  /\ Ready
  /\ \E sd \in PickableDays, ed \in PickableDays,
     sc \in SUBSET CountryOptions(store), st \in SUBSET PaidTypeOptions(store) :
    out' = Response("update_paid_overview",
             [start_date |-> sd, end_date |-> ed, selected_countries |-> sc,
              selected_types |-> st],
             update_paid_overview(store, sd, ed, sc, st))
  /\ store' = StoreAfter(out'.cb, store, out'.res)
  /\ UNCHANGED env

PaidSubsInsights ==
  /\ Ready
  /\ out' = Response("update_paid_subs_insights", <<>>, update_paid_subs_insights(store))
  /\ store' = StoreAfter(out'.cb, store, out'.res)
  /\ UNCHANGED env

LocationPaidInsights ==
  /\ Ready
  /\ out' = Response("update_location_paid_insights", <<>>, update_location_paid_insights(store))
  /\ store' = StoreAfter(out'.cb, store, out'.res)
  /\ UNCHANGED env

VolumeLocation ==
  /\ Ready
  /\ out' = Response("update_volume_location", <<>>, update_volume_location(store))
  /\ store' = StoreAfter(out'.cb, store, out'.res)
  /\ UNCHANGED env

\* The tables of at most MaxRows rows over a set of rows.
Tables(Rows) == UNION {[1..n -> Rows] : n \in 0..MaxRows}

(***************************************************************************)
(* The paid pages: the comparison and revenue pages, and the paid-volume   *)
(* pages, on tables whose types and payment dates vary.                    *)
(***************************************************************************)
RowsPaid ==
  [Date : {1, 2},
   Subscription_Type : {"New", "renewed", "Trial"},
   lastPaymentReceivedOn : {NoneVal, 0, 2},
   lastAmountPaidEUR : {50},
   Location : {"DE"}]
  \cup
  [Date : {BadVal},
   Subscription_Type : {"New"},
   lastPaymentReceivedOn : {2},
   lastAmountPaidEUR : {50},
   Location : {"DE"}]
  \cup
  [Date : {1},
   Subscription_Type : {"New"},
   lastPaymentReceivedOn : {NoneVal, 2},
   lastAmountPaidEUR : {50},
   Location : {"FR"}]

InitPaid == store \in Tables(RowsPaid) /\ out = NoOutput /\ Quiet

NextPaid ==
  \/ CmpOverview
  \/ CmpMonthOverview
  \/ PaidOverview
  \/ PaidSubsInsights
  \/ LocationPaidInsights
  \/ VolumeLocation
  \/ Deliver

SpecPaid == InitPaid /\ [][NextPaid]_vars

DailyOverview ==
  /\ Ready
  /\ \E sd \in PickableDays, ed \in PickableDays,
        sc \in SUBSET CountryOptions(store), st \in SUBSET TypeOptions(store) :
       out' = Response("update_daily_overview",
                [start_date |-> sd, end_date |-> ed, selected_countries |-> sc,
                 selected_types |-> st],
                update_daily_overview(store, sd, ed, sc, st))
  /\ store' = StoreAfter(out'.cb, store, out'.res)
  /\ UNCHANGED env

PackageOverview ==
  /\ Ready
  /\ \E sd \in PickableDays, ed \in PickableDays,
        sc \in SUBSET CountryOptions(store), st \in SUBSET TypeOptions(store) :
       out' = Response("update_package_overview",
                [start_date |-> sd, end_date |-> ed, selected_countries |-> sc,
                 selected_types |-> st],
                update_package_overview(store, sd, ed, sc, st))
  /\ store' = StoreAfter(out'.cb, store, out'.res)
  /\ UNCHANGED env

MonthlyOverview ==
  /\ Ready
  /\ \E sm \in SUBSET MonthOptions(store),
        sc \in SUBSET CountryOptions(store), st \in SUBSET TypeOptions(store) :
       out' = Response("update_monthly_overview",
                [selected_months |-> sm, selected_countries |-> sc, selected_types |-> st],
                update_monthly_overview(store, sm, sc, st))
  /\ store' = StoreAfter(out'.cb, store, out'.res)
  /\ UNCHANGED env

(***************************************************************************)
(* The filter stage: the daily overview and the package page on tables     *)
(* whose dates, types and locations vary.                                  *)
(***************************************************************************)
RowsFilter ==
  [Date : {BadVal, 1, 2, 3},
   Subscription_Type : {"New", "Trial"},
   Location : {"DE", "FR"},
   Package_Name : {"Premium"}]
  \cup
  [Date : {2}, Subscription_Type : {"New"}, Location : {"DE"},
   Package_Name : {"Standard", NoneType}]

InitFilter == store \in Tables(RowsFilter) /\ out = NoOutput /\ Quiet

NextFilter ==
  \/ DailyOverview
  \/ PackageOverview
  \/ Deliver

SpecFilter == InitFilter /\ [][NextFilter]_vars

(***************************************************************************)
(* The gap fill: the daily and the monthly overview on tables whose rows   *)
(* leave days and months without a record.                                 *)
(***************************************************************************)
RowsGapFill ==
  [Date : {BadVal, 1, 5, 8},
   Subscription_Type : {"New", "Trial", NoneType},
   Location : {"DE"}]

InitGapFill == store \in Tables(RowsGapFill) /\ out = NoOutput /\ Quiet

NextGapFill ==
  \/ DailyOverview
  \/ MonthlyOverview
  \/ Deliver

SpecGapFill == InitGapFill /\ [][NextGapFill]_vars

RevenueInsights ==
  /\ Ready
  /\ out' = Response("update_insights", <<>>, update_insights(store))
  /\ store' = StoreAfter(out'.cb, store, out'.res)
  /\ UNCHANGED env

LocationRevenueInsights ==
  /\ Ready
  /\ out' = Response("update_location_insights", <<>>, update_location_insights(store))
  /\ store' = StoreAfter(out'.cb, store, out'.res)
  /\ UNCHANGED env

VolumeTime ==
  /\ Ready
  /\ out' = Response("update_volume_time", <<>>, update_volume_time(store))
  /\ store' = StoreAfter(out'.cb, store, out'.res)
  /\ UNCHANGED env

CancellationInsights ==
  /\ Ready
  /\ out' = Response("update_cancellation_insights", <<>>,
                     update_cancellation_insights(store))
  /\ store' = StoreAfter(out'.cb, store, out'.res)
  /\ UNCHANGED env

LocationCancelInsights ==
  /\ Ready
  /\ out' = Response("update_location_cancel_insights", <<>>,
                     update_location_cancel_insights(store))
  /\ store' = StoreAfter(out'.cb, store, out'.res)
  /\ UNCHANGED env

(***************************************************************************)
(* The summary stage: the revenue and volume insight pages on tables whose *)
(* payment days, amounts and locations vary.                               *)
(***************************************************************************)
RowsInsights ==
  [Date : {1}, Subscription_Type : {"New"}, lastPaymentReceivedOn : {1, 2, 4},
   lastAmountPaidEUR : {0, 50}, Location : {"DE", "FR"}]
  \cup
  [Date : {2}, Subscription_Type : {"New", "Trial", NoneType},
   lastPaymentReceivedOn : {NoneVal, 1, 2}, lastAmountPaidEUR : {50}, Location : {"DE"}]
  \cup
  [Date : {BadVal, 5}, Subscription_Type : {"New"}, lastPaymentReceivedOn : {8},
   lastAmountPaidEUR : {BadVal, 50}, Location : {"DE", NoneLoc}]

InitInsights == store \in Tables(RowsInsights) /\ out = NoOutput /\ Quiet

NextInsights ==
  \/ RevenueInsights
  \/ LocationRevenueInsights
  \/ VolumeTime
  \/ VolumeLocation
  \/ Deliver

SpecInsights == InitInsights /\ [][NextInsights]_vars

(***************************************************************************)
(* The rates: the cancellation pages and the comparison page on tables     *)
(* that mix cancelled, paid and unpaid records.                            *)
(***************************************************************************)
RowsRates ==
  [Date : {BadVal, 1}, Subscription_Type : {"Cancelled", "cancelled", NoneType},
   lastPaymentReceivedOn : {NoneVal}, lastAmountPaidEUR : {50},
   Location : {"DE", "FR"}]
  \cup
  [Date : {1}, Subscription_Type : {"New"},
   lastPaymentReceivedOn : {NoneVal, 2}, lastAmountPaidEUR : {50},
   Location : {"DE", "FR"}]

InitRates == store \in Tables(RowsRates) /\ out = NoOutput /\ Quiet

NextRates ==
  \/ CancellationInsights
  \/ LocationCancelInsights
  \/ CmpOverview
  \/ Deliver

SpecRates == InitRates /\ [][NextRates]_vars

(***************************************************************************)
(* Empty results: the pages on tables whose rows the filters or the        *)
(* cleaning can all remove.                                                *)
(***************************************************************************)
RowsEmpty ==
  [Date : {BadVal, 1, 3}, Subscription_Type : {"New", "Trial"},
   lastPaymentReceivedOn : {NoneVal, 3}, lastAmountPaidEUR : {50},
   Location : {"DE"}]
  \cup
  [Date : {1}, Subscription_Type : {"New"},
   lastPaymentReceivedOn : {3}, lastAmountPaidEUR : {BadVal},
   Location : {"DE"}]

InitEmpty == store \in Tables(RowsEmpty) /\ out = NoOutput /\ Quiet

NextEmpty ==
  \/ DailyOverview
  \/ CmpOverview
  \/ RevenueInsights
  \/ Deliver

SpecEmpty == InitEmpty /\ [][NextEmpty]_vars

(***************************************************************************)
(* Missing columns: the pages on tables that lack one of the columns a     *)
(* page lists in required_cols.                                            *)
(***************************************************************************)
\* The values of the day inputs of the duration page: empty, or a number
\* of days.
PickableSpans == {NoneVal} \cup (0..(MaxDay + 1))

DurationPage ==
  /\ Ready
  /\ \E min_days \in PickableSpans, max_days \in PickableSpans :
       out' = Response("update_duration_page",
                [min_days |-> min_days, max_days |-> max_days],
                update_duration_page(store, min_days, max_days, now))
  /\ store' = StoreAfter(out'.cb, store, out'.res)
  /\ UNCHANGED env

\* required_cols of update_insights.
InsightsCols == {"lastPaymentReceivedOn", "lastAmountPaidEUR", "Date", "Subscription_Type"}

\* required_cols of update_duration_page.
DurationCols == {"initialSubsStartDate", "subscriptionCanceledAt", "User_ID", "Company"}

\* A record of the table read by SELECT * when the table has no column c.
Without(r, c) == [f \in DOMAIN r \ {c} |-> r[f]]

RowsMissing ==
  [Date : {0, 2}, Subscription_Type : {"New"},
   lastPaymentReceivedOn : {2}, lastAmountPaidEUR : {50}, Location : {"DE"},
   initialSubsStartDate : {0}, subscriptionCanceledAt : {NoneVal, 3},
   User_ID : {1}, Company : {"Acme"}]
  \cup
  [Date : {2}, Subscription_Type : {"New"},
   lastPaymentReceivedOn : {2}, lastAmountPaidEUR : {50}, Location : {"DE"},
   initialSubsStartDate : {2}, subscriptionCanceledAt : {NoneVal},
   User_ID : {2}, Company : {"Acme"}]

InitMissing ==
  /\ \E c \in InsightsCols \cup DurationCols \cup {"none"} :
       store \in Tables({Without(r, c) : r \in RowsMissing})
  /\ out = NoOutput
  /\ Quiet

NextMissing ==
  \/ RevenueInsights
  \/ DurationPage
  \/ DailyOverview
  \/ Deliver

SpecMissing == InitMissing /\ [][NextMissing]_vars

(***************************************************************************)
(* Spellings of the type: the pages that count cancellations on tables     *)
(* whose cancellations are written in several ways.                        *)
(***************************************************************************)
\* The values of the forecast-days field.
Horizons == 1..MaxHorizon

\* What a fitted model may forecast for one day.
YhatValues == {-1, 0, 3}

\* The forecasts the fitted models may return: a tail of days values for
\* every fitted type.
ModelOutputs(fitted, days) == [fitted -> [1..days -> YhatValues]]

\* The types the employee page fits a model for.
FittedEmployee(data, start_date, end_date, selected_types) ==
  IF data = <<>> \/ ~HasCol(data, "Subscription_Type")
     \/ (~HasCol(data, "lastPaymentReceivedOn") /\ ~HasCol(data, "Date"))
  THEN {}
  ELSE LET df == ForecastClean(data, start_date, end_date, selected_types)
       IN FittedTypes(data, df, [i \in Range(df) |-> ForecastType(data, i)], ForecastTypes)

ProphetEmployeeForecast ==
  /\ Ready
  /\ \E n_clicks \in {NoneVal, 1}, days \in Horizons, sd \in PickableDays,
        ed \in PickableDays, st \in {{}, {"cancelled"}} :
       \E yhat \in ModelOutputs(FittedEmployee(store, sd, ed, st), days) :
         out' = Response("update_prophet_employee_forecast",
                  [n_clicks |-> n_clicks, days |-> days, start_date |-> sd,
                   end_date |-> ed, selected_types |-> st, yhat |-> yhat],
                  update_prophet_employee_forecast(n_clicks, store, days, sd, ed, st, yhat))
  /\ store' = StoreAfter(out'.cb, store, out'.res)
  /\ UNCHANGED env

RowsSynonym ==
  [Date : {1, 3},
   Subscription_Type : {"Cancelled", "Canceled", " CANCELLATION ", "New"},
   lastPaymentReceivedOn : {3}, lastAmountPaidEUR : {50}, Location : {"DE"}]

InitSynonym == store \in Tables(RowsSynonym) /\ out = NoOutput /\ Quiet

NextSynonym ==
  \/ CancellationInsights
  \/ DailyOverview
  \/ ProphetEmployeeForecast
  \/ Deliver

SpecSynonym == InitSynonym /\ [][NextSynonym]_vars

(***************************************************************************)
(* Amounts: the revenue pages on tables whose amounts can be missing or    *)
(* unparseable.                                                            *)
(***************************************************************************)
RowsAmount ==
  [Date : {1, 3}, Subscription_Type : {"New"},
   lastPaymentReceivedOn : {3}, lastAmountPaidEUR : {NoneVal, BadVal, 50},
   Location : {"DE"}]
  \cup
  [Date : {1}, Subscription_Type : {"Trial"},
   lastPaymentReceivedOn : {3}, lastAmountPaidEUR : {NoneVal},
   Location : {"DE"}]

InitAmount == store \in Tables(RowsAmount) /\ out = NoOutput /\ Quiet

NextAmount ==
  \/ PaidOverview
  \/ RevenueInsights
  \/ Deliver

SpecAmount == InitAmount /\ [][NextAmount]_vars

(***************************************************************************)
(* Durations: the duration pages on tables whose dates come in any order,  *)
(* read at any time of the clock.                                          *)
(***************************************************************************)
\* The clock of the server advances between two requests.
Tick ==
  /\ out = NoOutput
  /\ now < MaxClock
  /\ now' = now + 1
  /\ UNCHANGED <<store, out, graph_subscription, etl, attempts, stdout>>

DurationBuckets ==
  /\ Ready
  /\ out' = Response("update_duration_buckets", <<>>, update_duration_buckets(store, now))
  /\ store' = StoreAfter(out'.cb, store, out'.res)
  /\ UNCHANGED env

FirstSubPage ==
  /\ Ready
  /\ out' = Response("update_first_sub_page", <<>>, update_first_sub_page(store))
  /\ store' = StoreAfter(out'.cb, store, out'.res)
  /\ UNCHANGED env

RowsClamp ==
  [initialSubsStartDate : {NoneVal, 1, 4}, subscriptionCanceledAt : {NoneVal, 0, 5},
   customerCreatedTimeUTC : {2}, User_ID : {1}, Company : {"Acme"}, Date : {1}]
  \cup
  [initialSubsStartDate : {1}, subscriptionCanceledAt : {NoneVal},
   customerCreatedTimeUTC : {NoneVal, 0}, User_ID : {2}, Company : {"Bolt"}, Date : {1}]

InitClamp == store \in Tables(RowsClamp) /\ out = NoOutput /\ Quiet

NextClamp ==
  \/ DurationPage
  \/ DurationBuckets
  \/ FirstSubPage
  \/ Tick
  \/ Deliver

SpecClamp == InitClamp /\ [][NextClamp]_vars

(***************************************************************************)
(* Unique subscribers: the duration pages on tables that hold several rows *)
(* of a user, with or without a start date and an event date.              *)
(***************************************************************************)
RowsDedup ==
  [initialSubsStartDate : {NoneVal, 1, 3}, subscriptionCanceledAt : {NoneVal},
   customerCreatedTimeUTC : {0}, User_ID : {1, 2}, Company : {"Acme"},
   Date : {NoneVal, 1, 3}]

InitDedup ==
  /\ store \in Tables(RowsDedup) \cup Tables({Without(r, "Date") : r \in RowsDedup})
  /\ out = NoOutput
  /\ Quiet

NextDedup ==
  \/ DurationPage
  \/ DurationBuckets
  \/ Deliver

SpecDedup == InitDedup /\ [][NextDedup]_vars

(***************************************************************************)
(* Start-up: the application reads the table once, publishes it in the     *)
(* store and then serves the page callbacks.                               *)
(***************************************************************************)
\* The module body of main/app.py: df = load_data(), then the layout with
\* the store holding initial_data.
LoadData ==
  /\ attempts = 0
  /\ attempts' = attempts + 1
  /\ LET df == load_data(graph_subscription)
     IN /\ store' = initial_data(df)
        /\ stdout' = stdout \o df.printed
  /\ UNCHANGED <<out, now, graph_subscription, etl>>

\* The rows of graph_subscription, under the column names of the database.
RowsDb ==
  [dateUTC : {1}, type : {"New", "Cancelled"},
   lastPaymentReceivedOn : {3}, lastAmountPaidEUR : {50}, country : {"DE"},
   currentPackageName : {"Premium"}, initialSubsStartDate : {1},
   subscriptionCanceledAt : {NoneVal, 3}, customerCreatedTimeUTC : {0},
   userID : {1}, companyName : {"Acme"}]

InitStartup ==
  /\ store = <<>>
  /\ out = NoOutput
  /\ now = 0
  /\ graph_subscription \in [up : BOOLEAN, rows : Tables(RowsDb)]
  /\ etl = Idle
  /\ attempts = 0
  /\ stdout = <<>>

NextStartup ==
  \/ LoadData
  \/ DailyOverview
  \/ PackageOverview
  \/ MonthlyOverview
  \/ CmpOverview
  \/ CmpMonthOverview
  \/ PaidOverview
  \/ PaidSubsInsights
  \/ LocationPaidInsights
  \/ VolumeLocation
  \/ VolumeTime
  \/ RevenueInsights
  \/ LocationRevenueInsights
  \/ CancellationInsights
  \/ LocationCancelInsights
  \/ DurationPage
  \/ DurationBuckets
  \/ FirstSubPage
  \/ ProphetEmployeeForecast
  \/ Deliver

SpecStartup == InitStartup /\ [][NextStartup]_vars

(***************************************************************************)
(* Data.populate_local.push_to_local_sql: the refresh of the table, which  *)
(* runs in a process of its own while the application may be starting.     *)
(***************************************************************************)
\* A DataFrame handed to push_to_local_sql, or None.
NoFrame == [none |-> TRUE, rows |-> <<>>]
Frame(rows) == [none |-> FALSE, rows |-> rows]

\* A push that connects whatever it is given.
push_to_local_sql_NoCheck(df, up) ==
  IF ~up
  THEN [pc |-> "failed",
        printed |-> <<"Connecting to Local Database", "Error pushing to local SQL">>]
  ELSE [pc |-> "connected", printed |-> <<"Connecting to Local Database">>]

\* push_to_local_sql(df, local_config) up to local_engine.connect(): with
\* nothing to push it returns at once, a refused connection goes to the
\* except branch.  up tells whether the local database accepts connections.
push_to_local_sql(df, up) ==
  IF df.none \/ df.rows = <<>>
  THEN [pc |-> "done", printed |-> <<"No data to push to local database.">>]
  ELSE IF ~up
  THEN [pc |-> "failed",
        printed |-> <<"Connecting to Local Database", "Error pushing to local SQL">>]
  ELSE [pc |-> "connected", printed |-> <<"Connecting to Local Database">>]

\* A call of push_to_local_sql with any table or with None.
PushStart ==
  /\ etl.pc = "idle"
  /\ \E df \in {NoFrame} \cup {Frame(rows) : rows \in Tables(RowsDb)} :
       LET step == push_to_local_sql(df, graph_subscription.up)
       IN /\ etl' = [pc |-> step.pc, df |-> df.rows, before |-> graph_subscription.rows]
          /\ stdout' = stdout \o step.printed
  /\ UNCHANGED <<store, out, now, graph_subscription, attempts>>

\* TRUNCATE TABLE graph_subscription followed by connection.commit().
PushTruncate ==
  /\ etl.pc = "connected"
  /\ graph_subscription' = [graph_subscription EXCEPT !.rows = <<>>]
  /\ etl' = [etl EXCEPT !.pc = "truncated"]
  /\ stdout' = stdout \o <<"Clearing existing data in 'graph_subscription'">>
  /\ UNCHANGED <<store, out, now, attempts>>

\* df_clean.to_sql(if_exists='append'): the rows are inserted in one
\* transaction, committed when to_sql returns.
PushInsert ==
  /\ etl.pc = "truncated"
  /\ graph_subscription' = [graph_subscription EXCEPT !.rows = etl.df]
  /\ etl' = [etl EXCEPT !.pc = "done"]
  /\ stdout' = stdout \o <<"Inserting fresh data", "Success! Populated 'graph_subscription'">>
  /\ UNCHANGED <<store, out, now, attempts>>

\* An exception in the with block (a lost connection, a row the table
\* rejects): the insert is rolled back, the committed TRUNCATE is not, and
\* the except branch prints the error.
PushFail ==
  /\ etl.pc \in {"connected", "truncated"}
  /\ etl' = [etl EXCEPT !.pc = "failed"]
  /\ stdout' = stdout \o <<"Error pushing to local SQL">>
  /\ UNCHANGED <<store, out, now, graph_subscription, attempts>>

InitRefresh ==
  /\ store = <<>>
  /\ out = NoOutput
  /\ now = 0
  /\ graph_subscription \in [up : BOOLEAN, rows : Tables(RowsDb)]
  /\ etl = Idle
  /\ attempts = 0
  /\ stdout = <<>>

NextRefresh ==
  \/ PushStart
  \/ PushTruncate
  \/ PushInsert
  \/ PushFail
  \/ LoadData

SpecRefresh == InitRefresh /\ [][NextRefresh]_vars

(***************************************************************************)
(* Data.data_fetch.get_remote_data and the run of populate_local as a      *)
(* script                                                                  *)
(***************************************************************************)
\* What the remote database answers: nothing when the connection or the
\* query fails, the rows of the table otherwise.
RemoteAnswers == [ok : BOOLEAN, rows : Tables(RowsDb)]

\* get_remote_data(): the fetched table, or None when the fetch fails or
\* the query returns no row.
get_remote_data(remote) ==
  IF ~remote.ok
  THEN [df |-> NoFrame,
        printed |-> <<"Connecting to Remote SQL Database",
                      "Error fetching data from Remote SQL">>]
  ELSE IF remote.rows = <<>>
  THEN [df |-> NoFrame,
        printed |-> <<"Connecting to Remote SQL Database",
                      "The query returned an empty dataset.">>]
  ELSE [df |-> Frame(remote.rows),
        printed |-> <<"Connecting to Remote SQL Database", "Data Fetched Successfully!">>]

\* __main__ of populate_local up to the test of remote_df.
MainFetch ==
  /\ etl.pc = "idle"
  /\ \E remote \in RemoteAnswers :
       LET remote_df == get_remote_data(remote)
       IN /\ etl' = [pc |-> IF remote_df.df.none THEN "skipped" ELSE "fetched",
                     df |-> remote_df.df.rows, before |-> graph_subscription.rows,
                     main |-> TRUE]
          /\ stdout' = stdout \o <<"Starting ETL Process...">> \o remote_df.printed
  /\ UNCHANGED <<store, out, now, graph_subscription, attempts>>

\* if remote_df is not None: push_to_local_sql(remote_df, LOCAL_DB_CONFIG)
MainPush ==
  /\ etl.pc = "fetched"
  /\ LET step == push_to_local_sql(Frame(etl.df), graph_subscription.up)
     IN /\ etl' = [etl EXCEPT !.pc = step.pc]
        /\ stdout' = stdout \o step.printed
  /\ UNCHANGED <<store, out, now, graph_subscription, attempts>>

\* The last line of the script, after the push has returned or was skipped.
MainFinish ==
  /\ "main" \in DOMAIN etl
  /\ etl.pc \in {"skipped", "done", "failed"}
  /\ etl' = [etl EXCEPT !.pc = "finished"]
  /\ stdout' = stdout \o <<"Process Finished.">>
  /\ UNCHANGED <<store, out, now, graph_subscription, attempts>>

InitEtl ==
  /\ store = <<>>
  /\ out = NoOutput
  /\ now = 0
  /\ graph_subscription \in [up : BOOLEAN, rows : Tables(RowsDb)]
  /\ etl = Idle
  /\ attempts = 0
  /\ stdout = <<>>

NextEtl ==
  \/ MainFetch
  \/ MainPush
  \/ MainFinish
  \/ PushStart
  \/ PushTruncate
  \/ PushInsert
  \/ PushFail

SpecEtl == InitEtl /\ [][NextEtl]_vars

(***************************************************************************)
(* The retention page on tables with one row per user, for the mode cards. *)
(***************************************************************************)
\* The row of a user, the User_ID left open: every user starts at tick 0
\* and is active or cancelled after half a day, one, two or three days.
RowsModes ==
  [initialSubsStartDate : {0},
   subscriptionCanceledAt : {NoneVal, TicksPerDay \div 2, TicksPerDay,
                             2 * TicksPerDay, 3 * TicksPerDay},
   customerCreatedTimeUTC : {0}, User_ID : {0}, Company : {"Acme"}, Date : {0, 1}]

\* The tables of n users, the row at position u being that of user u.
TablesOfUsers(n) ==
  {[u \in 1..n |-> [t[u] EXCEPT !.User_ID = u]] : t \in [1..n -> RowsModes]}

InitModes ==
  /\ store \in UNION {TablesOfUsers(n) : n \in 0..MaxUsers}
  /\ out = NoOutput
  /\ Quiet

NextModes ==
  \/ DurationBuckets
  \/ Deliver

SpecModes == InitModes /\ [][NextModes]_vars

(***************************************************************************)
(* The daily overview and the duration page while the clock advances.      *)
(***************************************************************************)
RowsPure ==
  [Date : {1, 3}, Subscription_Type : {"New"}, Location : {"DE"},
   Package_Name : {"Premium"}, initialSubsStartDate : {0, 1},
   subscriptionCanceledAt : {NoneVal, 3}, User_ID : {1, 2}, Company : {"Acme"}]

InitPure == store \in Tables(RowsPure) /\ out = NoOutput /\ Quiet

NextPure ==
  \/ DailyOverview
  \/ DurationPage
  \/ Tick
  \/ Deliver

SpecPure == InitPure /\ [][NextPure]_vars

(***************************************************************************)
(* The forecast pages on tables that span enough days for a model to be    *)
(* fitted, and on tables that do not.                                      *)
(***************************************************************************)
\* The types the revenue page fits a model for.
FittedRevenue(data) ==
  IF data = <<>> \/ ~HasCol(data, "Subscription_Type")
     \/ (~HasCol(data, "lastPaymentReceivedOn") /\ ~HasCol(data, "Date"))
  THEN {}
  ELSE LET df_in == RevenueForecastClean(data)
           df == remove_outliers_iqr(df_in, [i \in Range(df_in) |-> ForecastRevenue(data, i)])
       IN FittedTypes(data, df, [i \in Range(df) |-> RevenueForecastType(data, i)],
                      RevenueForecastTypes)

ProphetForecast ==
  /\ Ready
  /\ \E n_clicks \in {NoneVal, 1}, days \in Horizons :
       \E yhat \in ModelOutputs(FittedRevenue(store), days) :
         out' = Response("update_prophet_forecast",
                  [n_clicks |-> n_clicks, days |-> days, yhat |-> yhat],
                  update_prophet_forecast(n_clicks, store, days, yhat))
  /\ store' = StoreAfter(out'.cb, store, out'.res)
  /\ UNCHANGED env

RowsForecast ==
  [Date : {1}, Subscription_Type : {"New", "Renewed"},
   lastPaymentReceivedOn : {0, DayStart(MinDailyPoints - 1)},
   lastAmountPaidEUR : {50}, Location : {"DE"}]

InitForecast == store \in Tables(RowsForecast) /\ out = NoOutput /\ Quiet

NextForecast ==
  \/ ProphetForecast
  \/ ProphetEmployeeForecast
  \/ Deliver

SpecForecast == InitForecast /\ [][NextForecast]_vars

(***************************************************************************)
(* The insight pages on tables whose first and last timestamps lie on      *)
(* neighbouring days less than a day apart.                                *)
(***************************************************************************)
RowsPeriod ==
  [Date : {0, TicksPerDay - 1, TicksPerDay}, Subscription_Type : {"Cancelled", "New"},
   lastPaymentReceivedOn : {0, TicksPerDay - 1, TicksPerDay},
   lastAmountPaidEUR : {50}, Location : {"DE"}]

InitPeriod == store \in Tables(RowsPeriod) /\ out = NoOutput /\ Quiet

NextPeriod ==
  \/ RevenueInsights
  \/ CancellationInsights
  \/ Deliver

SpecPeriod == InitPeriod /\ [][NextPeriod]_vars

(***************************************************************************)
(* The employee forecast pages with one side of the date range given.      *)
(***************************************************************************)
\* The types the forest of the employee page predicts for.
PresentEmployee(data, start_date, end_date, selected_types) ==
  IF data = <<>> \/ ~HasCol(data, "Subscription_Type")
     \/ (~HasCol(data, "lastPaymentReceivedOn") /\ ~HasCol(data, "Date"))
  THEN {}
  ELSE TypesPresent(data, ForecastClean(data, start_date, end_date, selected_types))

EmployeeForecast ==
  /\ Ready
  /\ \E n_clicks \in {NoneVal, 1}, days \in Horizons, sd \in PickableDays,
        ed \in PickableDays, st \in {{}, {"cancelled"}} :
       \E yhat \in ModelOutputs(PresentEmployee(store, sd, ed, st), days) :
         out' = Response("update_employee_forecast",
                  [n_clicks |-> n_clicks, days |-> days, start_date |-> sd,
                   end_date |-> ed, selected_types |-> st, yhat |-> yhat],
                  update_employee_forecast(n_clicks, store, days, sd, ed, st, yhat))
  /\ store' = StoreAfter(out'.cb, store, out'.res)
  /\ UNCHANGED env

\* A table with one new subscription on each of five days in a row.
FiveDays ==
  [d \in 1..MinDailyPoints |->
     [Date |-> 1, Subscription_Type |-> "New",
      lastPaymentReceivedOn |-> DayStart(d - 1), lastAmountPaidEUR |-> 50,
      Location |-> "DE"]]

InitRange ==
  /\ store \in Tables(RowsForecast) \cup {FiveDays}
  /\ out = NoOutput
  /\ Quiet

NextRange ==
  \/ ProphetEmployeeForecast
  \/ EmployeeForecast
  \/ Deliver

SpecRange == InitRange /\ [][NextRange]_vars

(***************************************************************************)
(* The overview pages on tables that spell one type in several cases.      *)
(***************************************************************************)
RowsCase ==
  [Date : {1}, Subscription_Type : {"New", "NEW", "new", "Renewed"},
   lastPaymentReceivedOn : {2}, lastAmountPaidEUR : {50}, Location : {"DE"},
   Package_Name : {"Premium"}]

InitCase == store \in Tables(RowsCase) /\ out = NoOutput /\ Quiet

NextCase ==
  \/ DailyOverview
  \/ PaidOverview
  \/ Deliver

SpecCase == InitCase /\ [][NextCase]_vars

(***************************************************************************)
(* The outlier removal of the two revenue forecasts on tables of about     *)
(* OutlierMinRows rows, one of which may carry an unusual amount.          *)
(***************************************************************************)
\* The amounts of the ordinary rows: 50 and 60 in turn, so that the
\* quartiles are 50 and 60 and the bounds 35 and 75.
OrdinaryAmount(k) == IF k % 2 = 0 THEN 50 ELSE 60

\* The amounts the unusual row can carry: below the bounds, inside them,
\* above them.
UnusualAmounts == {0, 70, 1000}

\* A table of n rows whose row p (none when p = 0) carries amount v.
RevenueTable(n, p, v) ==
  [k \in 1..n |->
     [Date |-> 1, Subscription_Type |-> "New", lastPaymentReceivedOn |-> 0,
      lastAmountPaidEUR |-> IF k = p THEN v ELSE OrdinaryAmount(k),
      Location |-> "DE"]]

RevenueTables ==
  {RevenueTable(n, p, v) :
     n \in (OutlierMinRows - MaxSpread)..(OutlierMinRows + MaxSpread),
     p \in 0..(OutlierMinRows + MaxSpread), v \in UnusualAmounts}

\* remove_outliers_iqr applied to the cleaned rows of the store, as
\* get_prophet_revenue_prediction applies it.
RemoveOutliers ==
  /\ Ready
  /\ LET df_in == RevenueForecastClean(store)
     IN out' = Response("remove_outliers_iqr", [df |-> df_in],
                 remove_outliers_iqr(df_in, [i \in Range(df_in) |->
                                               ForecastRevenue(store, i)]))
  /\ UNCHANGED <<store, env>>

\* The outlier step of get_xgboost_revenue_prediction applied to the
\* cleaned rows of the store.
XgbOutliers ==
  /\ Ready
  /\ LET df_in == XgbClean(store)
     IN out' = Response("get_xgboost_revenue_prediction", [df |-> df_in],
                 XgbRemoveOutliers(df_in, [i \in Range(df_in) |->
                                             AmountFilled(store, i)]))
  /\ UNCHANGED <<store, env>>

InitOutliers == store \in RevenueTables /\ out = NoOutput /\ Quiet

NextOutliers ==
  \/ RemoveOutliers
  \/ XgbOutliers
  \/ Deliver

SpecOutliers == InitOutliers /\ [][NextOutliers]_vars

(***************************************************************************)
(* The survival funnel on users whose subscriptions ended at, just after   *)
(* and well after the thresholds of the funnel.                            *)
(***************************************************************************)
RowsFunnel ==
  [initialSubsStartDate : {0},
   subscriptionCanceledAt : {NoneVal, 0, DayStart(10), DayStart(10) + 1, DayStart(31),
                             DayStart(61), DayStart(366)},
   User_ID : {1, 2}, Company : {"Acme"}, Date : {1}]

InitFunnel == store \in Tables(RowsFunnel) /\ out = NoOutput /\ Quiet

NextFunnel ==
  \/ DurationBuckets
  \/ Tick
  \/ Deliver

SpecFunnel == InitFunnel /\ [][NextFunnel]_vars

(***************************************************************************)
(* The cohort table on users of two vintages who cancel in different       *)
(* months, the first of them possibly without a User_ID.                   *)
(***************************************************************************)
RowsCohort ==
  [initialSubsStartDate : {0, DayStart(DaysPerMonth)},
   subscriptionCanceledAt : {NoneVal, DayStart(DaysPerMonth), DayStart(2 * DaysPerMonth)},
   User_ID : {0}, Company : {"Acme"}, Date : {1}]

\* The tables of n users, the row at position u being that of user u, and
\* the same tables with the first user left without a User_ID.
CohortTables(n) ==
  LET known == {[u \in 1..n |-> [t[u] EXCEPT !.User_ID = u]] : t \in [1..n -> RowsCohort]}
  IN known \cup {[u \in 1..n |-> IF u = 1 THEN [t[u] EXCEPT !.User_ID = NoneVal] ELSE t[u]] :
                   t \in known}

InitCohort ==
  /\ store \in UNION {CohortTables(n) : n \in 0..MaxUsers}
  /\ out = NoOutput
  /\ Quiet

NextCohort ==
  \/ DurationBuckets
  \/ Deliver

SpecCohort == InitCohort /\ [][NextCohort]_vars

(***************************************************************************)
(* The three prediction functions on tables with and without the five      *)
(* days a model needs, whatever the fitted models predict.                 *)
(***************************************************************************)
\* The columns the regressors of the XGBoost page predict for: all three
\* when the function gets as far as the fit, none otherwise.
FittedXgb(data) ==
  IF data = <<>> \/ ~HasCol(data, "Subscription_Type")
     \/ (~HasCol(data, "lastPaymentReceivedOn") /\ ~HasCol(data, "Date"))
  THEN {}
  ELSE LET df_in == XgbClean(data)
           df == XgbRemoveOutliers(df_in, [i \in Range(df_in) |-> AmountFilled(data, i)])
       IN IF Cardinality(PivotDays(data, df)) < MinDailyPoints THEN {} ELSE XgbTypes

XgbForecast ==
  /\ Ready
  /\ \E n_clicks \in {NoneVal, 1}, days \in Horizons :
       \E yhat \in ModelOutputs(FittedXgb(store), days) :
         out' = Response("update_forecast",
                  [n_clicks |-> n_clicks, days |-> days, yhat |-> yhat],
                  update_forecast(n_clicks, store, days, yhat))
  /\ store' = StoreAfter(out'.cb, store, out'.res)
  /\ UNCHANGED env

InitSeries ==
  /\ store \in Tables(RowsForecast) \cup {FiveDays}
  /\ out = NoOutput
  /\ Quiet

NextSeries ==
  \/ ProphetForecast
  \/ ProphetEmployeeForecast
  \/ XgbForecast
  \/ Deliver

SpecSeries == InitSeries /\ [][NextSeries]_vars

(***************************************************************************)
(* Claims on the paid classification.                                      *)
(***************************************************************************)
\* C1: in update_cmp_overview, update_cmp_month_overview and
\* update_paid_overview a record is classified as paid if and only if its
\* lower-cased type is new, renewed or upgraded and its payment date is
\* present and on or after its event date (in update_paid_overview the
\* selected types, compared in lower case, further restrict the paid rows);
\* of two records that differ only in the type, or only in the payment
\* date, the one with a non-paid type, or with a payment date missing or
\* before the event date, is not paid.
C1_PaidIffTypeAndPayment ==
  (out.cb \in {"update_cmp_overview", "update_cmp_month_overview", "update_paid_overview"}
   /\ store # <<>>)
  =>
  LET paidType(r) == Lower(r.Subscription_Type) \in {"new", "renewed", "upgraded"}
      paidDate(r) == /\ r.lastPaymentReceivedOn >= 0
                     /\ r.Date >= 0
                     /\ r.lastPaymentReceivedOn >= r.Date
      selected(r) == \/ out.cb # "update_paid_overview"
                     \/ out.args.selected_types = {}
                     \/ \E t \in out.args.selected_types :
                          Lower(t) = Lower(r.Subscription_Type)
      sameButType(r, q) == [r EXCEPT !.Subscription_Type = q.Subscription_Type] = q
      sameButPay(r, q) == [r EXCEPT !.lastPaymentReceivedOn = q.lastPaymentReceivedOn] = q
  IN /\ Len(out.res.is_paid) = Len(store)
     /\ \A i \in 1..Len(store) :
          out.res.is_paid[i] <=> (paidType(store[i]) /\ paidDate(store[i])
                                  /\ selected(store[i]))
     /\ \A i, j \in 1..Len(store) :
          (out.res.is_paid[i] /\ sameButType(store[i], store[j])
           /\ ~paidType(store[j])) => ~out.res.is_paid[j]
     /\ \A i, j \in 1..Len(store) :
          (out.res.is_paid[i] /\ sameButPay(store[i], store[j])
           /\ ~paidDate(store[j])) => ~out.res.is_paid[j]

\* A comparison page has classified two records that differ only in the
\* payment date, the first paid on its event date, the second never paid.
C1_Witness ==
  /\ out.cb = "update_cmp_overview"
  /\ Len(store) = 2
  /\ store[1].lastPaymentReceivedOn = store[1].Date
  /\ store[2] = [store[1] EXCEPT !.lastPaymentReceivedOn = NoneVal]
  /\ out.res.is_paid = <<TRUE, FALSE>>

\* C2: every record counted as paid by update_paid_subs_insights,
\* update_location_paid_insights and update_volume_location has a paid type
\* and a payment date on or after its event date.
C2_PaidVolumeNeedsPayment ==
  (out.cb \in {"update_paid_subs_insights", "update_location_paid_insights",
               "update_volume_location"}
   /\ out.res.alert = "")
  =>
  \A k \in 1..Len(out.res.df_paid) :
    LET r == store[out.res.df_paid[k]]
    IN /\ Lower(r.Subscription_Type) \in {"new", "renewed", "upgraded"}
       /\ r.lastPaymentReceivedOn >= 0
       /\ r.lastPaymentReceivedOn >= r.Date

(***************************************************************************)
(* Claims on the filter stage and the gap fill.                            *)
(***************************************************************************)
\* The calendar day of a stored row, NaT when its date does not parse.
RowDay(i) == DateOf(ToDatetime(store[i].Date))

\* C3: the filter stage of update_daily_overview and update_package_overview
\* returns exactly the rows that satisfy every supplied predicate: the event
\* day is on or after the start day, on or before the end day, the location
\* is in the selected countries, the type is in the selected types; a
\* predicate that is not supplied removes no row.
C3_FilterIsConjunction ==
  (out.cb \in {"update_daily_overview", "update_package_overview"}
   /\ ~out.res.raised) =>
    LET a == out.args
        keep(i) ==
          /\ a.start_date # NoneVal => (RowDay(i) # NaT /\ RowDay(i) >= a.start_date)
          /\ a.end_date # NoneVal => (RowDay(i) # NaT /\ RowDay(i) <= a.end_date)
          /\ a.selected_countries # {} => store[i].Location \in a.selected_countries
          /\ a.selected_types # {} => store[i].Subscription_Type \in a.selected_types
    IN out.res.df = SelectSeq(Labels(store), keep)

\* C4: with a start day S and an end day E selected in update_daily_overview
\* (and no other filter), a record is kept if and only if its event day lies
\* in S..E, whatever its time of day, and the chart bucket of day E counts
\* the records of day E.
C4_DateRangeInclusive ==
  (out.cb = "update_daily_overview"
   /\ out.args.start_date # NoneVal /\ out.args.end_date # NoneVal
   /\ out.args.selected_countries = {} /\ out.args.selected_types = {}
   /\ ~out.res.raised) =>
    /\ \A i \in 1..Len(store) :
         i \in Range(out.res.df) <=>
           (RowDay(i) # NaT /\ RowDay(i) >= out.args.start_date
                            /\ RowDay(i) <= out.args.end_date)
    /\ \A k \in 1..Len(out.res.chart) :
         out.res.chart[k].date_only = out.args.end_date =>
           out.res.chart[k].count =
             Cardinality({i \in 1..Len(store) :
                            /\ RowDay(i) = out.args.end_date
                            /\ store[i].Subscription_Type
                                 = out.res.chart[k].Subscription_Type})

\* C5: after the gap fill of update_daily_overview (days) and
\* update_monthly_overview (months) the keys of the chart table are exactly
\* the product of every bucket of the range with the category set, each key
\* once; a key with no underlying row has count 0 and every other key has
\* the number of filtered rows of its bucket and type.
C5_GapFillIsProduct ==
  (out.cb \in {"update_daily_overview", "update_monthly_overview"}
   /\ ~out.res.raised /\ out.res.chart # <<>>) =>
    LET daily == out.cb = "update_daily_overview"
        chart == out.res.chart
        rows == Range(out.res.df)
        BucketOf(i) == IF daily THEN RowDay(i) ELSE MonthOfDay(RowDay(i))
        KeyOf(row) == IF daily THEN row.date_only ELSE row.Month_Start
        \* the rows that span the range: every filtered row on the daily page,
        \* the grouped rows (a month and a type present) on the monthly page
        spanning == IF daily THEN rows
                    ELSE {i \in rows : RowDay(i) # NaT
                                       /\ store[i].Subscription_Type # NoneType}
        lo == IF daily /\ out.args.start_date # NoneVal THEN out.args.start_date
              ELSE Min({BucketOf(i) : i \in spanning})
        hi == IF daily /\ out.args.end_date # NoneVal THEN out.args.end_date
              ELSE Max({BucketOf(i) : i \in spanning})
        cats == IF out.args.selected_types # {} THEN out.args.selected_types
                ELSE {store[i].Subscription_Type : i \in rows}
        keys == {<<KeyOf(chart[k]), chart[k].Subscription_Type>> : k \in 1..Len(chart)}
    IN /\ keys = (lo..hi) \X cats
       /\ Len(chart) = Cardinality((lo..hi) \X cats)
       /\ \A k \in 1..Len(chart) :
            chart[k].count =
              Cardinality({i \in rows :
                             /\ chart[k].Subscription_Type # NoneType
                             /\ BucketOf(i) = KeyOf(chart[k])
                             /\ store[i].Subscription_Type = chart[k].Subscription_Type})

\* A daily chart over a range that has a day without any record between two
\* days that have one: the day in the gap is charted with count 0.
C5_Witness ==
  /\ out.cb = "update_daily_overview"
  /\ ~out.res.raised
  /\ \E k1 \in 1..Len(out.res.chart), k2 \in 1..Len(out.res.chart),
        k3 \in 1..Len(out.res.chart) :
       /\ out.res.chart[k1].date_only < out.res.chart[k2].date_only
       /\ out.res.chart[k2].date_only < out.res.chart[k3].date_only
       /\ out.res.chart[k1].count > 0
       /\ out.res.chart[k2].count = 0
       /\ out.res.chart[k3].count > 0
       /\ \A i \in 1..Len(store) : RowDay(i) # out.res.chart[k2].date_only

(***************************************************************************)
(* Claims on the summary stage.                                            *)
(***************************************************************************)
\* a <= b and a = b for two quotients with positive denominators.
RatioLeq(a, b) == a.num * b.den <= b.num * a.den
RatioEq(a, b) == a.num * b.den = b.num * a.den

\* The calendar day on which a stored row was paid.
RowPayDay(i) == DateOf(ToDatetime(store[i].lastPaymentReceivedOn))

\* The rows update_volume_location keeps: a date, a location, a type.
VolumeRows ==
  {i \in 1..Len(store) : /\ RowDay(i) # NaT
                         /\ store[i].Location # NoneLoc
                         /\ store[i].Subscription_Type # NoneType}

\* C6: for the global KPIs of update_insights and for every location of
\* update_volume_location, Average(all-days) <= Average(active-days) when
\* the active days are fewer than the days of the period, and the two are
\* equal when every calendar day of the period, from its first to its last
\* day, has activity.
C6_AverageInvariant ==
  /\ (out.cb = "update_insights" /\ out.res.alert = "") =>
       LET r == out.res
           active == {RowPayDay(i) : i \in Range(r.df_clean)}
           calendar == Min(active)..Max(active)
       IN /\ r.active_days_count_global < r.total_days_period =>
               RatioLeq(r.avg_daily_all_days, r.avg_daily_active_days)
          /\ calendar \subseteq active =>
               RatioEq(r.avg_daily_all_days, r.avg_daily_active_days)
  /\ (out.cb = "update_volume_location" /\ out.res.alert = "") =>
       LET r == out.res
           calendar == Min({RowDay(i) : i \in VolumeRows})
                       ..Max({RowDay(i) : i \in VolumeRows})
       IN \A k \in 1..Len(r.location_report) :
            LET row == r.location_report[k]
                active == {RowDay(i) : i \in {j \in VolumeRows :
                                                store[j].Location = row.Location}}
            IN /\ row.Active_Days < r.total_days_period =>
                    RatioLeq(row.Avg_All_Days, row.Avg_Active_Days)
               /\ calendar \subseteq active =>
                    RatioEq(row.Avg_All_Days, row.Avg_Active_Days)

\* C7: the denominator of Average(active-days) is the number of days whose
\* summed revenue is not 0, in update_insights (global and per month) and
\* per location in update_location_insights.
C7_ActiveDaysNonzero ==
  /\ (out.cb = "update_insights" /\ out.res.alert = "") =>
       LET r == out.res
           Nonzero(daily) == Len(SelectSeq(daily, LAMBDA row : row.Daily_Revenue # 0))
       IN /\ r.active_days_count_global = Nonzero(r.daily_sums)
          /\ \A k \in 1..Len(r.monthly_report) :
               r.monthly_report[k].Active_Days =
                 Nonzero(MonthGroup(r.daily_sums, r.monthly_report[k].Month))
  /\ (out.cb = "update_location_insights" /\ out.res.alert = "") =>
       \A k \in 1..Len(out.res.location_report) :
         LET row == out.res.location_report[k]
             days == {RowPayDay(i) : i \in {j \in Range(out.res.df_clean) :
                                              store[j].Location = row.Location}}
             Revenue(d) ==
               SumSeq([j \in 1..Len(store) |->
                         IF j \in Range(out.res.df_clean)
                            /\ store[j].Location = row.Location /\ RowPayDay(j) = d
                         THEN store[j].lastAmountPaidEUR ELSE 0])
         IN row.Active_Days = Cardinality({d \in days : Revenue(d) # 0})

\* C8: when several days tie for the maximum (the minimum), the day that
\* update_insights and update_volume_time report, for the whole table and
\* inside each month, is the earliest of the tied days.
C8_TieEarliest ==
  LET EarliestMax(daily, Val(_)) ==
        Min({daily[k].Date : k \in {j \in 1..Len(daily) :
               \A l \in 1..Len(daily) : Val(daily[l]) <= Val(daily[j])}})
      EarliestMin(daily, Val(_)) ==
        Min({daily[k].Date : k \in {j \in 1..Len(daily) :
               \A l \in 1..Len(daily) : Val(daily[l]) >= Val(daily[j])}})
      Rev(row) == row.Daily_Revenue
      Cnt(row) == row.Daily_Count
  IN /\ (out.cb = "update_insights" /\ out.res.alert = "") =>
          LET r == out.res
          IN /\ r.max_day_global.Date = EarliestMax(r.daily_sums, Rev)
             /\ r.min_day_global.Date = EarliestMin(r.daily_sums, Rev)
             /\ \A k \in 1..Len(r.monthly_report) :
                  LET m == r.monthly_report[k]
                  IN /\ m.Max_Rev_Date = EarliestMax(MonthGroup(r.daily_sums, m.Month), Rev)
                     /\ m.Min_Rev_Date = EarliestMin(MonthGroup(r.daily_sums, m.Month), Rev)
     /\ (out.cb = "update_volume_time" /\ out.res.alert = "") =>
          LET r == out.res
          IN /\ r.max_day_global.Date = EarliestMax(r.daily_counts, Cnt)
             /\ \A k \in 1..Len(r.monthly_report) :
                  LET m == r.monthly_report[k]
                  IN /\ m.Max_Sub_Date = EarliestMax(MonthGroup(r.daily_counts, m.Month), Cnt)
                     /\ m.Min_Sub_Date = EarliestMin(MonthGroup(r.daily_counts, m.Month), Cnt)

\* Two days of one month tie for the best revenue day and the earlier one
\* is reported, for the month and for the whole table.
C8_Witness ==
  /\ out.cb = "update_insights"
  /\ out.res.alert = ""
  /\ Len(out.res.daily_sums) = 2
  /\ out.res.daily_sums[1].Daily_Revenue = out.res.daily_sums[2].Daily_Revenue
  /\ out.res.daily_sums[1].Daily_Revenue > 0
  /\ Len(out.res.monthly_report) = 1
  /\ out.res.max_day_global.Date = out.res.daily_sums[1].Date
  /\ out.res.monthly_report[1].Max_Rev_Date = out.res.daily_sums[1].Date

\* A rate r is the percentage of n rows among t rows: n / t * 100, 0 when
\* t is 0, and between 0 and 100.
IsPercentage(r, n, t) ==
  /\ r.den > 0
  /\ IF t = 0 THEN r.num = 0 ELSE r.num * t = 100 * n * r.den
  /\ 0 <= r.num
  /\ r.num <= 100 * r.den

\* The rows the cancellation time page keeps: a date and a type.
CancelBase == {i \in 1..Len(store) : RowDay(i) # NaT /\ store[i].Subscription_Type # NoneType}

\* C9: cancellation_rate of update_cancellation_insights, Churn_Rate of
\* every location of update_location_cancel_insights and paid_percent of
\* update_cmp_overview equal numerator count / total count * 100, are 0 when
\* the total is 0, and lie between 0 and 100, the numerator rows being rows
\* counted in the total.
C9_RatesArePercentages ==
  /\ (out.cb = "update_cancellation_insights" /\ out.res.alert = "") =>
       LET total == CancelBase
           cancelled == {i \in total : Lower(store[i].Subscription_Type) = "cancelled"}
       IN /\ out.res.total_cancellations = Cardinality(cancelled)
          /\ out.res.total_records = Cardinality(total)
          /\ IsPercentage(out.res.cancellation_rate,
                          Cardinality(cancelled), Cardinality(total))
  /\ (out.cb = "update_location_cancel_insights" /\ out.res.alert = "") =>
       \A k \in 1..Len(out.res.location_report) :
         LET row == out.res.location_report[k]
             total == {i \in CancelBase : store[i].Location = row.Location}
             cancelled == {i \in total : Lower(store[i].Subscription_Type) = "cancelled"}
         IN /\ row.Total_Cancel = Cardinality(cancelled)
            /\ row.Total_Traffic = Cardinality(total)
            /\ IsPercentage(row.Churn_Rate, Cardinality(cancelled), Cardinality(total))
  /\ (out.cb = "update_cmp_overview" /\ ~out.res.raised) =>
       LET total == Range(out.res.df)
           paid == {i \in total : out.res.is_paid[i]}
       IN /\ out.res.total_all = Cardinality(total)
          /\ out.res.total_paid = Cardinality(paid)
          /\ IsPercentage(out.res.paid_percent, Cardinality(paid), Cardinality(total))

\* A location whose churn rate is strictly between 0 and 100: some of its
\* records are cancelled and some are not.
C9_Witness ==
  /\ out.cb = "update_location_cancel_insights"
  /\ out.res.alert = ""
  /\ \E k \in 1..Len(out.res.location_report) :
       /\ out.res.location_report[k].Total_Cancel > 0
       /\ out.res.location_report[k].Total_Cancel
            < out.res.location_report[k].Total_Traffic
       /\ out.res.location_report[k].Churn_Rate.num > 0

\* C10: when the filters or the cleaning remove every row, the callback
\* does not raise: update_daily_overview and update_cmp_overview return
\* all-zero cards and a placeholder figure, and update_insights returns its
\* message; update_insights computes its KPIs only on a daily table with at
\* least one day, every month group holding at least one day.
C10_EmptyIsNotAnError ==
  /\ (out.cb \in {"update_daily_overview", "update_cmp_overview"}
      /\ FilterStage(store, out.args.start_date, out.args.end_date,
                     out.args.selected_countries, out.args.selected_types) = <<>>) =>
       /\ ~out.res.raised
       /\ out.res.fig \in {"No Data Available", "No Data Found for Selected Filters"}
       /\ out.cb = "update_daily_overview" =>
            /\ out.res.total_count = 0
            /\ \A c \in DOMAIN out.res.cards : out.res.cards[c] = 0
       /\ out.cb = "update_cmp_overview" =>
            /\ out.res.total_all = 0
            /\ out.res.total_paid = 0
            /\ out.res.paid_percent.num = 0
            /\ out.res.total_revenue = 0
  /\ out.cb = "update_insights" =>
       /\ ~out.res.raised
       /\ RevenueClean(store, Labels(store)) = <<>> => out.res.alert # ""
       /\ out.res.alert = "" =>
            /\ Len(out.res.daily_sums) >= 1
            /\ out.res.total_days_period >= 1
            /\ out.res.active_days_count_global >= 1
            /\ \A k \in 1..Len(out.res.monthly_report) :
                 out.res.monthly_report[k].Active_Days >= 1

\* update_insights on a table that is not empty and of which the cleaning
\* keeps no row.
C10_Witness ==
  /\ out.cb = "update_insights"
  /\ store # <<>>
  /\ RevenueClean(store, Labels(store)) = <<>>
  /\ out.res.alert = "No data found after applying filters."

(***************************************************************************)
(* Claims on the handling of bad input.                                    *)
(***************************************************************************)
\* The response is the warning that names the columns cols and nothing else.
MissingWarning(res, cols) ==
  /\ ~res.raised
  /\ res.alert = "Data missing required columns"
  /\ res.missing_cols = cols

\* C11: when the table lacks a column a page needs, the callback returns a
\* visible warning that names the missing columns and skips the aggregation,
\* and raises nothing: for each column of required_cols of update_insights
\* and of update_duration_page the response is the missing-columns alert
\* with the absent columns, and update_daily_overview on a table without
\* Date returns, whatever the filters, without raising and without a chart.
C11_MissingColumnWarns ==
  /\ (out.cb = "update_insights" /\ store # <<>>
      /\ MissingCols(store, InsightsCols) # {})
       => MissingWarning(out.res, MissingCols(store, InsightsCols))
  /\ (out.cb = "update_duration_page" /\ store # <<>>
      /\ MissingCols(store, DurationCols) # {})
       => MissingWarning(out.res, MissingCols(store, DurationCols))
  /\ (out.cb = "update_daily_overview" /\ store # <<>> /\ ~HasCol(store, "Date"))
       => (~out.res.raised /\ out.res.chart = <<>>)

\* The rows of df whose type, lower-cased, trimmed and passed through the
\* synonym table, is 'cancelled'.
CancelledRows(df) == SelectSeq(df, LAMBDA i : ForecastType(store, i) = "cancelled")

\* C12: the type is lower-cased, trimmed and mapped through the synonym
\* table before records are counted, so a record whose raw type is a
\* spelling of 'canceled' or 'cancellation' is counted as cancelled by the
\* forecast page, by update_cancellation_insights and by the Cancelled card
\* of update_daily_overview: each count of cancellations equals the number
\* of rows of the table it is taken on whose normalised type is cancelled.
C12_SynonymsCounted ==
  /\ (out.cb = "update_prophet_employee_forecast" /\ out.res.title = "Forecast")
       => out.res.history["cancelled"]
            = Len(CancelledRows(ForecastClean(store, out.args.start_date,
                                              out.args.end_date, {})))
  /\ (out.cb = "update_cancellation_insights" /\ ~out.res.raised)
       => LET dated == SelectSeq(Labels(store), LAMBDA i : HasDate(store, i)
                                                          /\ HasType(store, i))
          IN IF out.res.alert = "" THEN out.res.total_cancellations = Len(CancelledRows(dated))
             ELSE CancelledRows(dated) = <<>>
  /\ (out.cb = "update_daily_overview" /\ ~out.res.raised)
       => out.res.cards.count_cancelled = Len(CancelledRows(out.res.df))

\* The amount of row i is missing or cannot be parsed.
NoAmount(i) == ToNumeric(store[i].lastAmountPaidEUR) = NaN

\* The amount of row i with a missing or unparseable amount read as 0.
AmountOrZero(i) == IF NoAmount(i) THEN 0 ELSE store[i].lastAmountPaidEUR

\* C13: on the pages that sum revenue a missing or unparseable amount
\* becomes 0 and its row stays in the table: in update_paid_overview a row
\* without amount that is paid and passes the filters is a row of df_paid
\* and adds 0 to the total, and in update_insights a row without amount
\* whose type and dates make it a paid row is a row of the cleaned table
\* the revenue is summed on.
C13_MissingAmountIsZero ==
  /\ (out.cb = "update_paid_overview" /\ ~out.res.raised)
       => /\ \A i \in 1..Len(store) :
               (/\ NoAmount(i)
                /\ PaidMask(store, i, out.args.selected_types)
                /\ i \in Range(FilterStage(store, out.args.start_date, out.args.end_date,
                                           out.args.selected_countries, {})))
                 => i \in Range(out.res.df_paid)
          /\ out.res.total_revenue
               = SumSeq([k \in 1..Len(out.res.df_paid) |-> AmountOrZero(out.res.df_paid[k])])
  /\ (out.cb = "update_insights" /\ ~out.res.raised)
       => \A i \in 1..Len(store) :
            (/\ NoAmount(i)
             /\ TypeNorm(store, i) \in PaidTypes
             /\ PaymentMask(store, i))
              => (out.res.alert = "" /\ i \in Range(out.res.df_clean))

(***************************************************************************)
(* Claims on the duration pages.                                           *)
(***************************************************************************)
\* The cards computed on a column of durations show no negative value.
StatsNonNegative(stats) ==
  /\ stats.mean.num >= 0
  /\ stats.median.num >= 0
  /\ stats.min >= 0
  /\ stats.max >= 0

\* C14: every duration or tenure value that reaches a statistic, a filter,
\* a chart or a table is non-negative: in update_duration_page,
\* update_duration_buckets and update_first_sub_page no Duration_Days,
\* Days_to_First_Sub, card, mode or month-on-book value of the response is
\* below zero or undefined, whatever the start, cancellation and creation
\* dates of the rows.
C14_DurationsNonNegative ==
  /\ (out.cb = "update_duration_page" /\ out.res.alert = "")
       => /\ \A i \in Range(out.res.df_dur) : out.res.Duration_Days[i] >= 0
          /\ StatsNonNegative(out.res.stats)
  /\ (out.cb = "update_duration_buckets" /\ out.res.alert = "")
       => /\ \A i \in Range(out.res.df_dur) : out.res.Duration_Days[i] >= 0
          /\ StatsNonNegative(out.res.stats)
          /\ out.res.emp_p25_val.num >= 0 /\ out.res.emp_p75_val.num >= 0
          /\ \A k \in 1..3 : out.res.mode_data[k] = NoMode \/ out.res.mode_data[k].days >= 0
          /\ \A k \in 1..Len(out.res.cohort_table) : out.res.cohort_table[k].MonthOnBook >= 0
  /\ (out.cb = "update_first_sub_page" /\ out.res.alert = "")
       => /\ \A i \in Range(out.res.first_subs) : out.res.Days_to_First_Sub[i] >= 0
          /\ StatsNonNegative(out.res.stats)

\* The rows of the store with the User_ID of row i.
RowsOfUser(i) == {j \in 1..Len(store) : store[j].User_ID = store[i].User_ID}

\* Row i of the store has a valid start date.
ValidStart(i) == StartAt(store, i) # NaT

\* The sort column of the deduplication of the callback that answered.
DedupKey ==
  IF out.cb = "update_duration_buckets" THEN RetentionSortKey(store) ELSE StartKey(store)

\* After the deduplication a User_ID appears at most once, and exactly once
\* when one of its rows has a valid start date.
OncePerUser(df_dur) ==
  /\ \A a, b \in 1..Len(df_dur) :
       store[df_dur[a]].User_ID = store[df_dur[b]].User_ID => a = b
  /\ \A i \in 1..Len(store) :
       ValidStart(i) => \E k \in 1..Len(df_dur) : df_dur[k] \in RowsOfUser(i)

\* C15 as stated: in update_duration_page and update_duration_buckets,
\* after the deduplication every User_ID appears at most once, every
\* User_ID with a row that has a valid start date appears exactly once, and
\* the row kept for a user has the greatest value of the sort column among
\* all the rows of that user.
C15_KeptRowIsLatestOfAll ==
  (out.cb \in {"update_duration_page", "update_duration_buckets"} /\ out.res.alert = "")
    => /\ OncePerUser(out.res.df_dur)
       /\ \A k \in 1..Len(out.res.df_dur) :
            \A j \in RowsOfUser(out.res.df_dur[k]) :
              DedupKey[j] <= DedupKey[out.res.df_dur[k]]

\* C15 as amended: in update_duration_page and update_duration_buckets,
\* after the deduplication every User_ID appears at most once, every
\* User_ID with a row that has a valid start date appears exactly once, and
\* the row kept for a user has the greatest value of the sort column among
\* the rows of that user that have a valid start date.
C15_KeptRowIsLatestValid ==
  (out.cb \in {"update_duration_page", "update_duration_buckets"} /\ out.res.alert = "")
    => /\ OncePerUser(out.res.df_dur)
       /\ \A k \in 1..Len(out.res.df_dur) :
            /\ ValidStart(out.res.df_dur[k])
            /\ \A j \in RowsOfUser(out.res.df_dur[k]) :
                 ValidStart(j) => DedupKey[j] <= DedupKey[out.res.df_dur[k]]

\* The retention page has deduplicated a user with two dated rows, both
\* with a start date, and kept the later row, the second of the table.
C15_Witness ==
  /\ out.cb = "update_duration_buckets"
  /\ out.res.alert = ""
  /\ Len(store) = 2
  /\ HasCol(store, "Date")
  /\ store[1].User_ID = store[2].User_ID
  /\ ValidStart(1) /\ ValidStart(2)
  /\ store[1].Date # NoneVal /\ store[1].Date < store[2].Date
  /\ out.res.df_dur = <<2>>

NoDataOutput(res) ==
  IF "alert" \in DOMAIN res
  THEN res.alert \in {"No data available.", "Global Data Store is empty."}
  ELSE IF "fig" \in DOMAIN res THEN res.fig = "No Data Available"
  ELSE res.title = "No Data"

C18_RefreshIsAtomic ==
  etl.pc # "idle" => graph_subscription.rows \in {etl.before, etl.df}

(***************************************************************************)
(* Claims on the mode cards of the retention page.                         *)
(***************************************************************************)
\* The rounded durations of the cancelled users of a result, in the order
\* of the deduplicated table.
RoundedCancelled(res) ==
  [k \in 1..Len(res.df_cancelled_only) |-> Round(res.Duration_Days[res.df_cancelled_only[k]])]

\* The number of occurrences of v in a sequence and the position of the
\* first one.
Occurrences(vals, v) == Cardinality({k \in 1..Len(vals) : vals[k] = v})
FirstPosition(vals, v) == Min({k \in 1..Len(vals) : vals[k] = v})

\* Value v comes before value w in the mode cards: it occurs more often,
\* or as often and was met first.
ModeBefore(vals, v, w) ==
  \/ Occurrences(vals, v) > Occurrences(vals, w)
  \/ /\ Occurrences(vals, v) = Occurrences(vals, w)
     /\ FirstPosition(vals, v) < FirstPosition(vals, w)

C21_ForecastNeverRaises ==
  /\ (out.cb = "update_prophet_forecast" /\ out.args.days >= 1
      /\ FittedRevenue(store) = {})
       => ~out.res.raised
  /\ (out.cb = "update_prophet_employee_forecast" /\ out.args.days >= 1
      /\ FittedEmployee(store, out.args.start_date, out.args.end_date,
                        out.args.selected_types) = {})
       => ~out.res.raised

(***************************************************************************)
(* Claims on the period length.                                            *)
(***************************************************************************)
\* The calendar days of a set of timestamps.
DaysOf(stamps) == {DateOf(t) : t \in stamps}

\* The number of calendar days from the earliest to the latest day of a
\* set of timestamps, both included.
CalendarDays(stamps) == Max(DaysOf(stamps)) - Min(DaysOf(stamps)) + 1

\* C22: total_days_period equals the number of calendar days from the
\* earliest to the latest day of the data, both included, and is therefore
\* never smaller than the number of distinct days that have a record, in
\* update_insights and in update_cancellation_insights.
C22_PeriodIsCalendarDays ==
  /\ (out.cb = "update_insights" /\ "total_days_period" \in DOMAIN out.res) =>
       LET stamps == {PayAt(store, i) : i \in Range(out.res.df_clean)}
       IN /\ out.res.total_days_period = CalendarDays(stamps)
          /\ out.res.total_days_period >= Cardinality(DaysOf(stamps))
  /\ (out.cb = "update_cancellation_insights" /\ "total_days_period" \in DOMAIN out.res) =>
       LET stamps == {DateAt(store, i) : i \in Range(out.res.df)}
       IN /\ out.res.total_days_period = CalendarDays(stamps)
          /\ out.res.total_days_period >= Cardinality(DaysOf(stamps))

\* The records the history range [start, end] keeps, each side optional:
\* a known type, a date, on or after the start day and on or before the
\* end day when they are given.
InRange(data, start_date, end_date) ==
  SelectSeq(Labels(data), LAMBDA i :
    /\ ForecastType(data, i) \in ForecastTypes
    /\ ForecastDateAt(data, i) # NaT
    /\ start_date # NoneVal => ForecastDay(data, i) >= start_date
    /\ end_date # NoneVal => ForecastDay(data, i) <= end_date)

\* C23: each side of the history date range of the employee forecast
\* pages is optional on its own: with only a start date the pages keep
\* exactly the records on or after it, with only an end date exactly the
\* records on or before it, with neither all records.
C23_RangeSidesOptional ==
  (/\ out.cb \in {"update_prophet_employee_forecast", "update_employee_forecast"}
   /\ out.res.title = "Forecast"
   /\ out.args.selected_types = {}
   /\ out.args.start_date = NoneVal \/ out.args.end_date = NoneVal)
    => \A t \in ForecastTypes :
         out.res.history[t]
           = Len(SelectSeq(InRange(store, out.args.start_date, out.args.end_date),
                           LAMBDA i : ForecastType(store, i) = t))

(***************************************************************************)
(* Claims on the type filter.                                              *)
(***************************************************************************)
\* The per-type cards of a response on which both overview pages agree.
CardOf(res, t) ==
  CASE t = "new" -> res.count_new
    [] t = "renewed" -> res.count_renewed
    [] t = "upgraded" -> res.count_upgraded

\* C24: the type selection is case-insensitive: with a type value
\* selected, update_daily_overview and update_paid_overview keep every row
\* whose type equals it ignoring case, so the card of a selected type
\* shows the same count as with no type filter.
C24_TypeFilterIgnoresCase ==
  /\ (out.cb = "update_daily_overview" /\ ~out.res.raised) =>
       \A v \in out.args.selected_types :
         Lower(v) \in PaidTypes =>
           CardOf(out.res.cards, Lower(v))
             = CardOf(update_daily_overview(store, out.args.start_date, out.args.end_date,
                                            out.args.selected_countries, {}).cards,
                      Lower(v))
  /\ (out.cb = "update_paid_overview" /\ ~out.res.raised) =>
       \A v \in out.args.selected_types :
         Lower(v) \in PaidTypes =>
           CardOf(out.res, Lower(v))
             = CardOf(update_paid_overview(store, out.args.start_date, out.args.end_date,
                                           out.args.selected_countries, {}),
                      Lower(v))

(***************************************************************************)
(* Claims on the outlier removal of the revenue forecasts.                 *)
(***************************************************************************)
\* The rows an outlier step was given keep their order in what it returns.
IsSubSeqOf(kept, df) ==
  kept = SelectSeq(df, LAMBDA i : i \in Range(kept))

\* C25: remove_outliers_iqr returns a table of 20 rows or fewer unchanged,
\* removes rows on the same tables as the outlier step of
\* get_xgboost_revenue_prediction, and always returns rows of its input.
C25_OutlierThreshold ==
  out.cb = "remove_outliers_iqr" =>
    /\ Len(out.args.df) <= 20 => out.res = out.args.df
    /\ out.res = XgbRemoveOutliers(out.args.df,
                   [i \in Range(out.args.df) |-> AmountFilled(store, i)])
    /\ IsSubSeqOf(out.res, out.args.df)

(***************************************************************************)
(* Claims on the total card of the daily overview.                         *)
(***************************************************************************)
\* The sum of the count column of a chart table.
ChartSum(chart) == SumSeq([k \in 1..Len(chart) |-> chart[k].count])

\* C26: when the filters of update_daily_overview leave at least one row,
\* the Total Records card the page answers with equals the sum of the counts
\* of the (day, type) buckets of the gap-filled chart, rows without a type
\* included.
C26_TotalIsSumOfBuckets ==
  (out.cb = "update_daily_overview" /\ ~out.res.raised /\ out.res.total_count > 0) =>
    out.res.total_count = ChartSum(out.res.chart)

(***************************************************************************)
(* Claims on the survival funnel of the retention page.                    *)
(***************************************************************************)
\* The users of the answer whose duration exceeds a number of days.
Exceeding(days) ==
  {i \in Range(out.res.df_dur) : out.res.Duration_Days[i] > days * TicksPerDay}

\* C27: the survival funnel of update_duration_buckets is monotone,
\* total_unique_users >= c1 >= c2 >= c3 >= c4 >= c5, where c1..c5 count the
\* unique users whose duration exceeds 0, 10, 30, 60 and 365 days, and each
\* percentage is count / total_unique_users * 100, and 0 without a user.
C27_FunnelMonotone ==
  /\ (out.cb = "update_duration_buckets" /\ out.res.alert = "") =>
       LET r == out.res
           days == <<0, 10, 30, 60, 365>>
       IN /\ Len(r.survival) = 5
          /\ r.total_unique_users = Cardinality({store[i].User_ID : i \in Range(r.df_dur)})
          /\ r.total_unique_users >= r.survival[1].count
          /\ \A k \in 1..4 : r.survival[k].count >= r.survival[k + 1].count
          /\ \A k \in 1..5 :
               /\ r.survival[k].count = Cardinality(Exceeding(days[k]))
               /\ r.survival[k].pct_of_total.den > 0
               /\ RatioEq(r.survival[k].pct_of_total,
                          Ratio(r.survival[k].count * 100, r.total_unique_users))
  /\ \A d \in {0, 10, 30, 60, 365} :
       get_survival_stats(<<>>, d) = [count |-> 0, pct_of_total |-> Ratio(0, 1)]

\* Two users, one who ended exactly at a threshold and one who ended after
\* the last one: the funnel narrows from 2 to 1.
C27_Witness ==
  /\ out.cb = "update_duration_buckets"
  /\ out.res.alert = ""
  /\ out.res.total_unique_users = 2
  /\ \E i \in Range(out.res.df_dur) : out.res.Duration_Days[i] = 10 * TicksPerDay
  /\ out.res.survival[1].count = 2
  /\ out.res.survival[2].count = 1
  /\ out.res.survival[5].count = 1

(***************************************************************************)
(* Claims on the cohort table of the retention page.                       *)
(***************************************************************************)
\* 0 <= a <= 100 for a quotient with a positive denominator.
IsPercent(a) == a.den > 0 /\ a.num >= 0 /\ a.num <= 100 * a.den

\* C28: in the cohort table of update_duration_buckets, for the cohorts of
\* users with a User_ID, the cumulative cancellations never exceed the
\* cohort size and every retention rate lies between 0 and 100; within a
\* cohort the rate does not increase with MonthOnBook, in the table and in
\* the heatmap after the forward fill and the fill with 100.
C28_RetentionBounded ==
  (out.cb = "update_duration_buckets" /\ out.res.alert = "") =>
    LET table == out.res.cohort_table
        heat == out.res.heatmap_data
    IN /\ \A k \in 1..Len(table) :
            table[k].TotalCohortSize > 0 =>
              /\ table[k].CumulativeCancellations <= table[k].TotalCohortSize
              /\ IsPercent(table[k].RetentionRate)
              /\ RatioEq(table[k].RetentionRate,
                         Ratio(100 * (table[k].TotalCohortSize
                                        - table[k].CumulativeCancellations),
                               table[k].TotalCohortSize))
       /\ \A k \in 1..Len(table), l \in 1..Len(table) :
            (/\ table[k].CohortVintage = table[l].CohortVintage
             /\ table[k].TotalCohortSize > 0
             /\ table[k].MonthOnBook < table[l].MonthOnBook) =>
              RatioLeq(table[l].RetentionRate, table[k].RetentionRate)
       /\ \A r \in 1..Len(heat.index) :
            /\ \A j \in 1..Len(heat.columns) : IsPercent(heat.values[r][j])
            /\ \A j \in 1..(Len(heat.columns) - 1) :
                 RatioLeq(heat.values[r][j + 1], heat.values[r][j])

\* A heatmap with a cell filled with 100 before the first rate of its row,
\* a cell filled forward from its left neighbour, and a row whose rate
\* falls from one month to a later one.
C28_Witness ==
  /\ out.cb = "update_duration_buckets"
  /\ out.res.alert = ""
  /\ LET table == out.res.cohort_table
         heat == out.res.heatmap_data
         HasRate(v, m) == \E k \in 1..Len(table) :
                            table[k].CohortVintage = v /\ table[k].MonthOnBook = m
     IN \E r1 \in 1..Len(heat.index), r2 \in 1..Len(heat.index),
           j1 \in 1..Len(heat.columns), j2 \in 2..Len(heat.columns) :
          /\ ~HasRate(heat.index[r1], heat.columns[j1])
          /\ \A c \in 1..j1 : ~HasRate(heat.index[r1], heat.columns[c])
          /\ ~HasRate(heat.index[r2], heat.columns[j2])
          /\ HasRate(heat.index[r2], heat.columns[j2 - 1])
          /\ \E k \in 1..Len(table), l \in 1..Len(table) :
               /\ table[k].CohortVintage = table[l].CohortVintage
               /\ table[k].MonthOnBook < table[l].MonthOnBook
               /\ table[l].MonthlyCancellations > 0
               /\ table[l].RetentionRate.den # 0
               /\ ~RatioLeq(table[k].RetentionRate, table[l].RetentionRate)

(***************************************************************************)
(* Claims on the refresh without new data.                                 *)
(***************************************************************************)
\* A line was printed on the console.
Printed(line) == \E k \in 1..Len(stdout) : stdout[k] = line

\* C29: the ETL never clears the local table without new data to insert:
\* push_to_local_sql called with None or an empty table returns without
\* opening a connection and leaves graph_subscription as it was, and a run
\* whose get_remote_data failed or returned nothing does not reach the
\* truncate step.
C29_NoClearWithoutData ==
  /\ (etl.pc # "idle" /\ etl.df = <<>>) =>
       /\ graph_subscription.rows = etl.before
       /\ ~Printed("Connecting to Local Database")
       /\ ~Printed("Clearing existing data in 'graph_subscription'")
       /\ etl.pc \in {"done", "skipped", "finished"}
  /\ Printed("Clearing existing data in 'graph_subscription'") => etl.df # <<>>
  /\ (Printed("Error fetching data from Remote SQL")
        \/ Printed("The query returned an empty dataset.")) =>
       /\ etl.pc \in {"skipped", "finished"}
       /\ ~Printed("No data to push to local database.")
       /\ graph_subscription.rows = etl.before

\* A run whose fetch failed has finished, and the table that held rows
\* before still holds them.
C29_Witness ==
  /\ etl.pc = "finished"
  /\ Printed("Error fetching data from Remote SQL")
  /\ graph_subscription.up
  /\ graph_subscription.rows # <<>>
  /\ graph_subscription.rows = etl.before

(***************************************************************************)
(* Claims on the results of the prediction functions.                      *)
(***************************************************************************)
\* The forecast pages and the types each of them predicts for.
ForecastPages == {"update_prophet_forecast", "update_prophet_employee_forecast",
                  "update_forecast"}

TypesOfPage(cb) ==
  CASE cb = "update_prophet_forecast" -> RevenueForecastTypes
    [] cb = "update_prophet_employee_forecast" -> ForecastTypes
    [] cb = "update_forecast" -> XgbTypes

\* The cleaned rows the page of the pending answer hands to its
\* prediction function.
CleanOfPage ==
  CASE out.cb = "update_prophet_forecast" -> RevenueForecastClean(store)
    [] out.cb = "update_prophet_employee_forecast" ->
         ForecastClean(store, out.args.start_date, out.args.end_date,
                       out.args.selected_types)
    [] out.cb = "update_forecast" -> XgbClean(store)

\* The result of the prediction function called by the page of the pending
\* answer.
PredictionOfPage ==
  CASE out.cb = "update_prophet_forecast" ->
         get_prophet_revenue_prediction(store, CleanOfPage, out.args.days, out.args.yhat)
    [] out.cb = "update_prophet_employee_forecast" ->
         get_prophet_employee_count(store, CleanOfPage, out.args.days, out.args.yhat)
    [] out.cb = "update_forecast" ->
         get_xgboost_revenue_prediction(store, CleanOfPage, out.args.days, out.args.yhat)

\* The daily points of type t on a Prophet page: the days from the first
\* day of the type to the last day of the table.
PointsOfPage(t) ==
  IF out.cb = "update_prophet_forecast"
  THEN LET df == remove_outliers_iqr(CleanOfPage,
                   [i \in Range(CleanOfPage) |-> ForecastRevenue(store, i)])
       IN DailyPoints(store, df, [i \in Range(df) |-> RevenueForecastType(store, i)], t)
  ELSE DailyPoints(store, CleanOfPage,
                   [i \in Range(CleanOfPage) |-> ForecastType(store, i)], t)

\* The sum of the values of f over the set S.
RECURSIVE SumOver(_, _)
SumOver(S, f) ==
  IF S = {} THEN 0
  ELSE LET t == CHOOSE t \in S : TRUE IN f[t] + SumOver(S \ {t}, f)

\* The page of the pending answer has called its prediction function.
PredictionCalled ==
  out.cb \in ForecastPages /\ store # <<>> /\ out.args.n_clicks # NoneVal

====
